---- MODULE Spec2Model ----
(***************************************************************************)
(* Document verification service: the verify handlers, the matching and    *)
(* scoring services, the seeding script and the two collections            *)
(* (AuthoritativeRecord, Verification) as a state machine.                 *)
(*                                                                         *)
(* Strings are sequences of one-character tokens; the absent values of    *)
(* JavaScript (undefined, null, '') are the empty sequence, which is      *)
(* falsy like them.  Scores are exact rationals in units of 1/Scale.       *)
(***************************************************************************)
EXTENDS Integers, Sequences, FiniteSets, TLC

\* ------------------------------------------------------------------------
\* Generic helpers
\* ------------------------------------------------------------------------
Range(s) == {s[i] : i \in 1..Len(s)}

Min2(a, b) == IF a <= b THEN a ELSE b

Max2(a, b) == IF a >= b THEN a ELSE b

Max3(a, b, c) == Max2(a, Max2(b, c))

\* JavaScript truthiness of a string value: '' / undefined / null are falsy.
Truthy(s) == s # <<>>

\* a || b on string values
OrElse(a, b) == IF Truthy(a) THEN a ELSE b

\* ------------------------------------------------------------------------
\* src/utils/hash.js
\* ------------------------------------------------------------------------
LowerLetters == <<"a","b","c","d","e","f","g","h","i","j","k","l","m",
                  "n","o","p","q","r","s","t","u","v","w","x","y","z">>

UpperLetters == <<"A","B","C","D","E","F","G","H","I","J","K","L","M",
                  "N","O","P","Q","R","S","T","U","V","W","X","Y","Z">>

Digits == {"0","1","2","3","4","5","6","7","8","9"}

\* \s of the regular expressions: the space and the tab of the model's alphabet
Whitespace == {" ", "\t"}

IndexOf(seq, c) == CHOOSE i \in 1..Len(seq) : seq[i] = c

LowerSet == Range(LowerLetters)

UpperSet == Range(UpperLetters)

IsLower(c) == c \in LowerSet

IsUpper(c) == c \in UpperSet

\* String.prototype.toUpperCase, one character
UpperChar(c) == IF IsLower(c) THEN UpperLetters[IndexOf(LowerLetters, c)] ELSE c

\* String.prototype.toLowerCase, one character
LowerChar(c) == IF IsUpper(c) THEN LowerLetters[IndexOf(UpperLetters, c)] ELSE c

toUpperCase(s) == [i \in 1..Len(s) |-> UpperChar(s[i])]

toLowerCase(s) == [i \in 1..Len(s) |-> LowerChar(s[i])]

\* replace(/\s+/g, ''): every whitespace character is removed
RECURSIVE StripWhitespace(_)
StripWhitespace(s) ==
  IF s = <<>> THEN <<>>
  ELSE IF Head(s) \in Whitespace THEN StripWhitespace(Tail(s))
       ELSE <<Head(s)>> \o StripWhitespace(Tail(s))

\* normalizeId(id): '' for a falsy id, else whitespace removed and upper-cased
normalizeId(id) ==
  IF ~Truthy(id) THEN <<>> ELSE toUpperCase(StripWhitespace(id))

\* The accented letters of the model's alphabet, each with the base letter
\* that NFKD followed by the removal of \p{Diacritic} leaves.
Accented == {"e'", "E'"}

FoldChar(c) == IF c = "e'" THEN "e" ELSE IF c = "E'" THEN "E" ELSE c

\* normalize('NFKD').replace(/\p{Diacritic}/gu, '')
FoldDiacritics(s) == [i \in 1..Len(s) |-> FoldChar(s[i])]

RECURSIVE TrimLeft(_)
TrimLeft(s) ==
  IF s # <<>> /\ Head(s) \in Whitespace THEN TrimLeft(Tail(s)) ELSE s

RECURSIVE TrimRight(_)
TrimRight(s) ==
  IF s # <<>> /\ s[Len(s)] \in Whitespace
  THEN TrimRight(SubSeq(s, 1, Len(s) - 1)) ELSE s

\* String.prototype.trim
trim(s) == TrimRight(TrimLeft(s))

\* replace(/\s+/g, ' '): every run of whitespace becomes one space
RECURSIVE CollapseWhitespace(_)
CollapseWhitespace(s) ==
  IF s = <<>> THEN <<>>
  ELSE IF Head(s) \in Whitespace
       THEN <<" ">> \o CollapseWhitespace(TrimLeft(Tail(s)))
       ELSE <<Head(s)>> \o CollapseWhitespace(Tail(s))

\* normalizeName(name)
normalizeName(name) ==
  IF ~Truthy(name) THEN <<>>
  ELSE toLowerCase(CollapseWhitespace(trim(FoldDiacritics(name))))

\* sha256Hex(input): a deterministic, injective digest.  The digest of s is
\* the tagged string "#" s, which no raw identifier of the model equals.
sha256Hex(input) == <<"#">> \o input

\* ------------------------------------------------------------------------
\* fast-levenshtein, as the controllers use it
\* ------------------------------------------------------------------------
\* one row of the edit-distance table: cur[j+1] is the distance between the
\* prefix of a ending in ch and the first j characters of b
RECURSIVE LevFill(_, _, _, _)
LevFill(prev, ch, b, cur) ==
  IF Len(cur) = Len(b) + 1 THEN cur
  ELSE LET j == Len(cur)
           sub == prev[j] + (IF ch = b[j] THEN 0 ELSE 1)
       IN  LevFill(prev, ch, b,
                   Append(cur, Min2(Min2(prev[j + 1] + 1, cur[j] + 1), sub)))

RECURSIVE LevRows(_, _, _)
LevRows(a, b, prev) ==
  IF a = <<>> THEN prev[Len(b) + 1]
  ELSE LevRows(Tail(a), b, LevFill(prev, Head(a), b, <<prev[1] + 1>>))

\* levenshtein.get(a, b)
levenshtein(a, b) == LevRows(a, b, [j \in 1..(Len(b) + 1) |-> j - 1])

\* ------------------------------------------------------------------------
\* Fixed-point scores: the number x is the integer x * Scale.
\* ------------------------------------------------------------------------
Scale == 60000000

One == Scale

\* p percent of a score (p/100 * x); exact for the scores of the model
Pct(x, p) == (x \div 100) * p

\* the decimal constant n / 1000
Milli(n) == (Scale \div 1000) * n

\* 1 - (dist / maxLen)
Similarity(dist, maxLen) == One - (dist * (Scale \div maxLen))

\* Number(x.toFixed(d)) : x rounded half up to d decimals
RoundTo(x, unit) ==
  LET q == x \div unit
      r == x % unit
  IN  (IF 2 * r >= unit THEN q + 1 ELSE q) * unit

\* ------------------------------------------------------------------------
\* src/services/scoringService.js
\* ------------------------------------------------------------------------
WT_DB_MATCH == 50

WT_FORMAT == 25

WT_OCR == 25

THRESH_VERIFIED == 85

THRESH_MANUAL == 60

\* DEFAULT_WEIGHTS: read from the environment when the module loads, in
\* hundredths; the defaults are 0.5 / 0.25 / 0.25
DEFAULT_WEIGHTS == [db |-> WT_DB_MATCH, format |-> WT_FORMAT, ocr |-> WT_OCR]

\* DEFAULT_THRESHOLDS: read from the environment when the module loads, in
\* hundredths; the defaults are 0.85 / 0.6
DEFAULT_THRESHOLDS == [verified |-> THRESH_VERIFIED, manual |-> THRESH_MANUAL]

\* a computeFinalConfidence that subtracts the extraction term
computeFinalConfidencePenalty(w, db_match_score, format_check, ocr_confidence) ==
  Pct(db_match_score, w.db) + Pct(format_check, w.format)
    - Pct(ocr_confidence, w.ocr)

\* the body of computeFinalConfidence under the weights w
computeFinalConfidenceWith(w, db_match_score, format_check, ocr_confidence) ==
  Pct(db_match_score, w.db) + Pct(format_check, w.format)
    + Pct(ocr_confidence, w.ocr)

\* computeFinalConfidence({db_match_score, format_check, ocr_confidence})
computeFinalConfidence(db_match_score, format_check, ocr_confidence) ==
  computeFinalConfidenceWith(DEFAULT_WEIGHTS, db_match_score, format_check,
                             ocr_confidence)

\* a decideStatus that tests the lower threshold first
decideStatusManualFirst(t, confidence) ==
  IF confidence >= Pct(One, t.manual) THEN "MANUAL_REVIEW"
  ELSE IF confidence >= Pct(One, t.verified) THEN "VERIFIED"
  ELSE "REJECTED"

\* the body of decideStatus under the thresholds t
decideStatusWith(t, confidence) ==
  IF confidence >= Pct(One, t.verified) THEN "VERIFIED"
  ELSE IF confidence >= Pct(One, t.manual) THEN "MANUAL_REVIEW"
  ELSE "REJECTED"

\* a decideStatus whose thresholds are exclusive
decideStatusExclusive(confidence) ==
  IF confidence > Pct(One, THRESH_VERIFIED) THEN "VERIFIED"
  ELSE IF confidence > Pct(One, THRESH_MANUAL) THEN "MANUAL_REVIEW"
  ELSE "REJECTED"

\* decideStatus(confidence)
decideStatus(confidence) == decideStatusWith(DEFAULT_THRESHOLDS, confidence)

\* ------------------------------------------------------------------------
\* Values of the model
\* ------------------------------------------------------------------------
\* an absent number (undefined / null), e.g. a missing ocr_confidence
NoNum == -1

\* x ?? d on numbers
Coalesce(x, d) == IF x = NoNum THEN d ELSE x

\* an absent date; dates are day numbers, Now is the day of new Date()
NoDate == 0

Now == 1000

\* ------------------------------------------------------------------------
\* src/models/AuthoritativeRecord.js : the documents of the collection
\* ------------------------------------------------------------------------
\* the fields of the Mixed value `raw` that the handlers read
EmptyRaw ==
  [name |-> <<>>, registration_no |-> <<>>, application_no |-> <<>>,
   mark_name |-> <<>>, owner_name |-> <<>>, account_no |-> <<>>,
   service_connection_no |-> <<>>, bill_number |-> <<>>, meter_no |-> <<>>,
   consumer_name |-> <<>>, distributor_name |-> <<>>, council_name |-> <<>>,
   nationality |-> <<>>, class |-> <<>>, certificate_no |-> <<>>,
   product_code |-> <<>>, previous_month_kwh |-> NoNum]

\* null where a record is expected; no stored document has _id 0
NullRecord ==
  [_id |-> 0, doc_type |-> "", lookup_key |-> <<>>, id_hash |-> <<>>,
   id_masked |-> <<>>, canonical_name |-> <<>>, dob |-> NoDate,
   address |-> <<>>, raw |-> EmptyRaw, source |-> ""]

\* AuthoritativeRecord.find(query): the documents satisfying Q, in natural order
find(st, Q(_)) == SelectSeq(st, Q)

\* AuthoritativeRecord.findOne(query).lean(): the first such document, or null
findOne(st, Q(_)) ==
  IF \E i \in 1..Len(st) : Q(st[i])
  THEN st[CHOOSE i \in 1..Len(st) :
            Q(st[i]) /\ \A j \in 1..(i - 1) : ~Q(st[j])]
  ELSE NullRecord

\* .limit(n)
limit(seq, n) == SubSeq(seq, 1, Min2(Len(seq), n))

\* a collection whose unique index was never built
DuplicateKeyUnindexed(st, doc_type, id_hash) == FALSE

\* the unique index { doc_type: 1, id_hash: 1 }: would inserting a document
\* with this key raise a duplicate-key error?
DuplicateKey(st, doc_type, id_hash) ==
  \E i \in 1..Len(st) : st[i].doc_type = doc_type /\ st[i].id_hash = id_hash

\* the _id given to the next inserted document
NewObjectId(st) == Len(st) + 1

\* ------------------------------------------------------------------------
\* src/scripts/seed-authoritative.js
\* ------------------------------------------------------------------------
EmptyItem ==
  [doc_type |-> "", raw_id |-> <<>>, id_masked |-> <<>>, lookup_key |-> <<>>,
   canonical_name |-> <<>>, name |-> <<>>, dob |-> NoDate, address |-> <<>>,
   raw |-> EmptyRaw, source |-> ""]

\* id_hash.slice(0, 8)
slice8(h) == SubSeq(h, 1, Min2(Len(h), 8))

\* the $set document of one seed item
SeedSet(item) ==
  LET rawId      == OrElse(item.raw_id, OrElse(item.id_masked, item.lookup_key))
      normalized == normalizeId(rawId)
      id_hash    == IF Truthy(normalized) THEN sha256Hex(normalized) ELSE <<>>
  IN  [lookup_key     |-> OrElse(item.lookup_key,
                            <<item.doc_type, "-">> \o
                              (IF Truthy(id_hash) THEN slice8(id_hash)
                                                  ELSE <<"now">>)),
       doc_type       |-> item.doc_type,
       id_hash        |-> id_hash,
       id_masked      |-> OrElse(item.id_masked, item.raw_id),
       canonical_name |-> normalizeName(OrElse(item.canonical_name, item.name)),
       dob            |-> item.dob,
       address        |-> item.address,
       raw            |-> item.raw,
       source         |-> IF item.source # "" THEN item.source ELSE "seed"]

\* one operation of the batch: { updateOne: { filter, update, upsert: true } };
\* the filter is by digest when there is one, else by the item's lookup_key
SeedOp(item) ==
  LET set == SeedSet(item)
  IN  [filter_by_hash |-> Truthy(set.id_hash),
       doc_type       |-> item.doc_type,
       id_hash        |-> set.id_hash,
       lookup_key     |-> item.lookup_key,
       set            |-> set]

\* raw.map(item => ...)
SeedOps(items) == [i \in 1..Len(items) |-> SeedOp(items[i])]

SeedFilter(op, rec) ==
  /\ rec.doc_type = op.doc_type
  /\ IF op.filter_by_hash THEN rec.id_hash = op.id_hash
                          ELSE rec.lookup_key = op.lookup_key

\* one updateOne with upsert: the first document the filter selects is
\* updated; with none, a document is inserted unless the unique index refuses
\* it.  The result is the store and whether the operation succeeded.
UpsertOne(st, op) ==
  LET set == op.set
      Hit(rec) == SeedFilter(op, rec)
  IN  IF \E i \in 1..Len(st) : Hit(st[i])
      THEN LET i == CHOOSE k \in 1..Len(st) :
                      Hit(st[k]) /\ \A j \in 1..(k - 1) : ~Hit(st[j])
           IN  [ok |-> TRUE,
                st |-> [st EXCEPT ![i] = [_id |-> st[i]._id] @@ set]]
      ELSE IF DuplicateKey(st, set.doc_type, set.id_hash)
           THEN [ok |-> FALSE, st |-> st]
           ELSE [ok |-> TRUE,
                 st |-> Append(st, [_id |-> NewObjectId(st)] @@ set)]

\* AuthoritativeRecord.bulkWrite(ops), ordered: the operations are applied in
\* order and the first failing one stops the batch
RECURSIVE bulkWrite(_, _)
bulkWrite(st, ops) ==
  IF ops = <<>> THEN st
  ELSE LET r == UpsertOne(st, Head(ops))
       IN  IF r.ok THEN bulkWrite(r.st, Tail(ops)) ELSE r.st

\* ------------------------------------------------------------------------
\* Match results
\* ------------------------------------------------------------------------
\* null where a matchedRecord object is expected
NoMatch ==
  [matched |-> FALSE, record |-> NullRecord, match_type |-> "", score |-> NoNum]

\* { record, match_type } and { record, match_type, score }
Match(rec, match_type, score) ==
  [matched |-> TRUE, record |-> rec, match_type |-> match_type, score |-> score]

\* 1 - dist / Math.max(a.length, b.length, 1)
NameSimilarity(a, b) ==
  Similarity(levenshtein(a, b), Max3(Len(a), Len(b), 1))

\* a selection that takes the last candidate, whatever the scores
BestIndexLast(scores) == Len(scores)

\* the first position of the largest value: the head of a stable descending
\* sort, and the result of a scan that replaces the best only on a strict >
BestIndex(scores) ==
  CHOOSE i \in 1..Len(scores) :
    /\ \A j \in 1..Len(scores) : scores[j] <= scores[i]
    /\ \A j \in 1..(i - 1) : scores[j] < scores[i]

\* ------------------------------------------------------------------------
\* src/services/matchingService.js
\* ------------------------------------------------------------------------
FUZZY_NAME_DOB_LIMIT == 200

\* the acceptance threshold 0.65
FUZZY_NAME_DOB_THRESHOLD == Pct(One, 65)

\* scored[0] after the descending sort: the best candidate and its similarity,
\* or nothing when the query returns no candidate
bestByNameDob(st, docType, name, dob) ==
  LET canonical == normalizeName(name)
      Q(c) == c.doc_type = docType /\ (dob # NoDate => c.dob = dob)
      candidates == limit(find(st, Q), FUZZY_NAME_DOB_LIMIT)
      similarity == [i \in 1..Len(candidates) |->
                       NameSimilarity(canonical, candidates[i].canonical_name)]
  IN  IF candidates = <<>> THEN NoMatch
      ELSE LET best == BestIndex(similarity)
           IN  Match(candidates[best], "fuzzy", similarity[best])

\* a fuzzyLookupByNameDob that refuses a similarity equal to the threshold
fuzzyLookupByNameDobStrict(st, docType, name, dob) ==
  IF ~Truthy(name) THEN NoMatch
  ELSE LET best == bestByNameDob(st, docType, name, dob)
       IN  IF best.matched /\ best.score > FUZZY_NAME_DOB_THRESHOLD
           THEN best ELSE NoMatch

fuzzyLookupByNameDob(st, docType, name, dob) ==
  IF ~Truthy(name) THEN NoMatch
  ELSE LET best == bestByNameDob(st, docType, name, dob)
       IN  IF best.matched /\ best.score >= FUZZY_NAME_DOB_THRESHOLD
           THEN best ELSE NoMatch

\* the matched_record of a response: { record_id, match_type, id_masked } or null
NullView == [record_id |-> 0, match_type |-> "", id_masked |-> <<>>]

MatchedRecordView(match) ==
  IF match.record # NullRecord
  THEN [record_id |-> match.record._id, match_type |-> match.match_type,
        id_masked |-> match.record.id_masked]
  ELSE NullView

\* toFixed(2) and toFixed(4) on a score
toFixed2(x) == RoundTo(x, Scale \div 100)

toFixed4(x) == RoundTo(x, Scale \div 10000)

\* ------------------------------------------------------------------------
\* src/controllers/verifyPanController.js : verifyPanHandler
\* ------------------------------------------------------------------------
\* /^[A-Z]{5}[0-9]{4}[A-Z]$/
PanRegex(s) ==
  /\ Len(s) = 10
  /\ \A i \in 1..5 : IsUpper(s[i])
  /\ \A i \in 6..9 : s[i] \in Digits
  /\ IsUpper(s[10])

PanFormatCheck(e) == IF Truthy(e.pan) /\ PanRegex(e.pan) THEN One ELSE 0

\* the exact lookup path: the raw pan when there is one, else the client hash
PanExact(st, e) ==
  LET ByPan(c)  == c.doc_type = "PAN" /\ c.id_hash = sha256Hex(normalizeId(e.pan))
      ByHash(c) == c.doc_type = "PAN" /\ c.id_hash = e.id_hash
      rec == IF Truthy(e.pan) THEN findOne(st, ByPan)
             ELSE IF Truthy(e.id_hash) THEN findOne(st, ByHash)
             ELSE NullRecord
  IN  [main |-> IF rec # NullRecord THEN Match(rec, "exact_id_hash", NoNum)
                ELSE NoMatch]

\* a fuzzy fallback that does not look at the exact lookup's result
PanFuzzyNeededUnguarded(e, m) == Truthy(e.name)

\* if (!matchedRecord && name)
PanFuzzyNeeded(e, m) == ~m.main.matched /\ Truthy(e.name)

PanFuzzy(st, e, m) ==
  LET fuzzy == fuzzyLookupByNameDob(st, "PAN", e.name, e.dob)
  IN  [main |-> IF fuzzy.matched
                THEN Match(fuzzy.record, "fuzzy_name_dob", fuzzy.score)
                ELSE m.main]

\* checks, as the handler has assigned them when it scores
PanChecks(e, m) ==
  [format_check   |-> PanFormatCheck(e),
   db_match_score |-> IF ~m.main.matched THEN 0
                      ELSE IF m.main.match_type = "exact_id_hash" THEN One
                      ELSE m.main.score,
   ocr_confidence |-> Coalesce(e.ocr_confidence, 0)]

PanBuildReasons(checks, m) ==
  (IF checks.format_check # 0 THEN << <<"pan_format_ok">> >> ELSE <<>>)
  \o (IF checks.db_match_score = One THEN << <<"exact_db_match">> >>
      ELSE IF checks.db_match_score > 0
           THEN << <<"fuzzy_db_match_score", toFixed2(checks.db_match_score)>> >>
           ELSE <<>>)
  \o (IF checks.ocr_confidence # 0 /\ checks.ocr_confidence < Pct(One, 60)
      THEN << <<"low_ocr_confidence">> >> ELSE <<>>)
  \o (IF ~m.main.matched THEN << <<"no_db_match_found">> >> ELSE <<>>)

\* what the handler hands to Verification.create, less the request's ids
PanVerdict(e, m) ==
  LET checks == PanChecks(e, m)
      final_confidence ==
        computeFinalConfidence(checks.db_match_score, checks.format_check,
                               checks.ocr_confidence)
  IN  [doc_type          |-> "PAN",
       checks            |-> checks,
       scorer            |-> checks,
       matched_record_id |-> m.main.record._id,
       matched_record    |-> MatchedRecordView(m.main),
       final_confidence  |-> final_confidence,
       status            |-> decideStatus(final_confidence),
       reasons           |-> PanBuildReasons(checks, m)]

\* ------------------------------------------------------------------------
\* src/controllers/verifyAadhaarController.js : verifyAadhaarHandler
\* ------------------------------------------------------------------------
\* /^[0-9]{n}$/
DigitsRegex(s, n) == Len(s) = n /\ \A i \in 1..n : s[i] \in Digits

\* String.prototype.includes
includes(s, sub) ==
  \E i \in 1..(Len(s) - Len(sub) + 1) : SubSeq(s, i, i + Len(sub) - 1) = sub

AadhaarFormatCheck(e) ==
  IF Truthy(e.aadhaar) /\ DigitsRegex(e.aadhaar, 12) THEN One
  ELSE IF Truthy(e.aadhaar_last4) /\ DigitsRegex(e.aadhaar_last4, 4)
       THEN Pct(One, 70)
       ELSE 0

\* the exact lookup path: the client hash when there is one, else the raw id
AadhaarExact(st, e) ==
  LET ByHash(c) == c.doc_type = "AADHAAR" /\ c.id_hash = e.id_hash
      ByRaw(c)  == c.doc_type = "AADHAAR"
                     /\ c.id_hash = sha256Hex(normalizeId(e.aadhaar))
      rec == IF Truthy(e.id_hash) THEN findOne(st, ByHash)
             ELSE IF Truthy(e.aadhaar) THEN findOne(st, ByRaw)
             ELSE NullRecord
  IN  [main |-> IF rec # NullRecord THEN Match(rec, "exact_id_hash", NoNum)
                ELSE NoMatch]

\* if (!matchedRecord && (aadhaar_last4 || name))
AadhaarFuzzyNeeded(e, m) ==
  ~m.main.matched /\ (Truthy(e.aadhaar_last4) \/ Truthy(e.name))

AADHAAR_CANDIDATE_LIMIT == 200

\* the acceptance threshold 0.65
AADHAAR_FUZZY_THRESHOLD == Pct(One, 65)

fuzzyScoreCandidate(candidate, name) ==
  LET candName == OrElse(candidate.canonical_name, candidate.raw.name)
  IN  NameSimilarity(normalizeName(name), normalizeName(candName))

\* best after the loop over effectiveCandidates
AadhaarBest(st, e) ==
  LET Q(c) == c.doc_type = "AADHAAR" /\ (e.dob # NoDate => c.dob = e.dob)
      candidates == limit(find(st, Q), AADHAAR_CANDIDATE_LIMIT)
      ByLast4(c) == Truthy(c.id_masked) /\ includes(c.id_masked, e.aadhaar_last4)
      filtered == IF Truthy(e.aadhaar_last4) THEN SelectSeq(candidates, ByLast4)
                  ELSE candidates
      effectiveCandidates == IF filtered # <<>> THEN filtered ELSE candidates
      score == [i \in 1..Len(effectiveCandidates) |->
                  fuzzyScoreCandidate(effectiveCandidates[i], e.name)]
  IN  IF effectiveCandidates = <<>> THEN NoMatch
      ELSE LET best == BestIndex(score)
           IN  Match(effectiveCandidates[best], "fuzzy_name_dob", score[best])

AadhaarFuzzy(st, e, m) ==
  LET best == AadhaarBest(st, e)
  IN  [main |-> IF best.matched /\ best.score >= AADHAAR_FUZZY_THRESHOLD
                THEN best ELSE m.main]

AadhaarChecks(e, m) ==
  [format_check   |-> AadhaarFormatCheck(e),
   db_match_score |-> IF ~m.main.matched THEN 0
                      ELSE IF m.main.match_type = "exact_id_hash" THEN One
                      ELSE m.main.score,
   ocr_confidence |-> Coalesce(e.ocr_confidence, 0)]

AadhaarBuildReasons(checks, m) ==
  (IF checks.format_check = One THEN << <<"aadhaar_format_ok">> >>
   ELSE IF checks.format_check > 0 THEN << <<"aadhaar_last4_provided">> >>
        ELSE <<>>)
  \o (IF checks.db_match_score = One THEN << <<"exact_db_match">> >>
      ELSE IF checks.db_match_score > 0
           THEN << <<"fuzzy_db_match_score", toFixed2(checks.db_match_score)>> >>
           ELSE <<>>)
  \o (IF checks.ocr_confidence # 0 /\ checks.ocr_confidence < Pct(One, 60)
      THEN << <<"low_ocr_confidence">> >> ELSE <<>>)
  \o (IF ~m.main.matched THEN << <<"no_db_match_found">> >> ELSE <<>>)

AadhaarVerdict(e, m) ==
  LET checks == AadhaarChecks(e, m)
      final_confidence ==
        computeFinalConfidence(checks.db_match_score, checks.format_check,
                               checks.ocr_confidence)
  IN  [doc_type          |-> "AADHAAR",
       checks            |-> checks,
       scorer            |-> checks,
       matched_record_id |-> m.main.record._id,
       matched_record    |-> MatchedRecordView(m.main),
       final_confidence  |-> final_confidence,
       status            |-> decideStatus(final_confidence),
       reasons           |-> AadhaarBuildReasons(checks, m)]

\* ------------------------------------------------------------------------
\* src/controllers/verifyGstController.js : verifyGstHandler
\* ------------------------------------------------------------------------
IsAlnumUpper(c) == IsUpper(c) \/ c \in Digits

\* /^[0-9]{2}[A-Z]{5}[0-9]{4}[A-Z][A-Z0-9]Z[A-Z0-9]$/
GstinRegex(s) ==
  /\ Len(s) = 15
  /\ \A i \in 1..2 : s[i] \in Digits
  /\ \A i \in 3..7 : IsUpper(s[i])
  /\ \A i \in 8..11 : s[i] \in Digits
  /\ IsUpper(s[12])
  /\ IsAlnumUpper(s[13])
  /\ s[14] = "Z"
  /\ IsAlnumUpper(s[15])

\* gstin.toString().replace(/\s+/g, '').toUpperCase()
GstNormalized(e) ==
  IF Truthy(e.gstin) THEN toUpperCase(StripWhitespace(e.gstin)) ELSE <<>>

GstFormatCheck(e) ==
  IF Truthy(GstNormalized(e)) /\ GstinRegex(GstNormalized(e)) THEN One ELSE 0

\* the exact lookup: the client hash when there is one, else the gstin
GstExact(st, e) ==
  LET gstin == GstNormalized(e)
      ByHash(c) == c.doc_type = "GST" /\ c.id_hash = e.id_hash
      ByRaw(c)  == c.doc_type = "GST" /\ c.id_hash = sha256Hex(normalizeId(gstin))
      rec == IF Truthy(e.id_hash) THEN findOne(st, ByHash)
             ELSE IF Truthy(gstin) THEN findOne(st, ByRaw)
             ELSE NullRecord
  IN  [main |-> IF rec # NullRecord THEN Match(rec, "exact_id_hash", NoNum)
                ELSE NoMatch]

\* if (!matchedRecord && legal_name)
GstFuzzyNeeded(e, m) == ~m.main.matched /\ Truthy(e.legal_name)

ENTITY_CANDIDATE_LIMIT == 200

\* the acceptance threshold 0.62
ENTITY_FUZZY_THRESHOLD == Pct(One, 62)

\* scored[0] after the descending sort
bestByNameDobForEntity(st, docType, name, registration_date) ==
  LET canonical == normalizeName(name)
      Q(c) == c.doc_type = docType
                /\ (registration_date # NoDate => c.dob = registration_date)
      candidates == limit(find(st, Q), ENTITY_CANDIDATE_LIMIT)
      similarity ==
        [i \in 1..Len(candidates) |->
           Similarity(levenshtein(canonical,
                                  normalizeName(candidates[i].canonical_name)),
                      Max3(Len(canonical), Len(candidates[i].canonical_name), 1))]
  IN  IF candidates = <<>> THEN NoMatch
      ELSE LET best == BestIndex(similarity)
           IN  Match(candidates[best], "fuzzy", similarity[best])

fuzzyLookupByNameDobForEntity(st, docType, name, registration_date) ==
  LET best == bestByNameDobForEntity(st, docType, name, registration_date)
  IN  IF best.matched /\ best.score >= ENTITY_FUZZY_THRESHOLD
      THEN best ELSE NoMatch

GstFuzzy(st, e, m) ==
  LET fuzzy == fuzzyLookupByNameDobForEntity(st, "GST", e.legal_name,
                                             e.registration_date)
  IN  [main |-> IF fuzzy.matched
                THEN Match(fuzzy.record, "fuzzy_name_date", fuzzy.score)
                ELSE m.main]

GstChecks(e, m) ==
  [format_check   |-> GstFormatCheck(e),
   db_match_score |-> IF ~m.main.matched THEN 0
                      ELSE IF m.main.match_type = "exact_id_hash" THEN One
                      ELSE m.main.score,
   ocr_confidence |-> Coalesce(e.ocr_confidence, 0)]

GstBuildReasons(checks, m) ==
  (IF checks.format_check = One THEN << <<"gst_format_ok">> >> ELSE <<>>)
  \o (IF checks.db_match_score = One THEN << <<"exact_db_match">> >>
      ELSE IF checks.db_match_score > 0
           THEN << <<"fuzzy_db_match_score", toFixed2(checks.db_match_score)>> >>
           ELSE <<>>)
  \o (IF checks.ocr_confidence # 0 /\ checks.ocr_confidence < Pct(One, 60)
      THEN << <<"low_ocr_confidence">> >> ELSE <<>>)
  \o (IF ~m.main.matched THEN << <<"no_db_match_found">> >> ELSE <<>>)

GstVerdict(e, m) ==
  LET checks == GstChecks(e, m)
      final_confidence ==
        computeFinalConfidence(checks.db_match_score, checks.format_check,
                               checks.ocr_confidence)
  IN  [doc_type          |-> "GST",
       checks            |-> checks,
       scorer            |-> checks,
       matched_record_id |-> m.main.record._id,
       matched_record    |-> MatchedRecordView(m.main),
       final_confidence  |-> final_confidence,
       status            |-> decideStatus(final_confidence),
       reasons           |-> GstBuildReasons(checks, m)]

\* ------------------------------------------------------------------------
\* src/controllers/verifyPassportController.js : verifyPassportHandler
\* ------------------------------------------------------------------------
PassportFormatCheck(e) ==
  IF Truthy(e.passport_no) \/ Truthy(e.passport_no_masked) THEN One ELSE 0

\* 1 when the expiry date is not before now, 0 when it is, 0.5 when unknown
PassportDateValidity(e) ==
  IF e.expiry_date # NoDate
  THEN (IF e.expiry_date >= Now THEN One ELSE 0)
  ELSE Pct(One, 50)

\* the exact lookups: client hash, then digest of passport_no, then masked id
PassportExact(st, e) ==
  LET ByHash(c)   == c.doc_type = "PASSPORT" /\ c.id_hash = e.id_hash
      ByRaw(c)    == c.doc_type = "PASSPORT"
                       /\ c.id_hash = sha256Hex(normalizeId(e.passport_no))
      ByMasked(c) == c.doc_type = "PASSPORT" /\ c.id_masked = e.passport_no_masked
      r1 == IF Truthy(e.id_hash) THEN findOne(st, ByHash) ELSE NullRecord
      r2 == IF r1 = NullRecord /\ Truthy(e.passport_no)
            THEN findOne(st, ByRaw) ELSE NullRecord
      r3 == IF r1 = NullRecord /\ r2 = NullRecord /\ Truthy(e.passport_no_masked)
            THEN findOne(st, ByMasked) ELSE NullRecord
  IN  [main |-> IF r1 # NullRecord THEN Match(r1, "exact_id_hash", NoNum)
                ELSE IF r2 # NullRecord
                     THEN Match(r2, "exact_passport_hash", NoNum)
                ELSE IF r3 # NullRecord
                     THEN Match(r3, "exact_id_masked", NoNum)
                ELSE NoMatch]

\* if (!matchedRecord && name)
PassportFuzzyNeeded(e, m) == ~m.main.matched /\ Truthy(e.name)

PASSPORT_CANDIDATE_LIMIT == 500

\* the acceptance threshold 0.66
PASSPORT_FUZZY_THRESHOLD == Pct(One, 66)

PassportScore(e, c) ==
  LET nameCanon == normalizeName(e.name)
      candName  == OrElse(c.canonical_name, c.raw.name)
      nameSim   == Similarity(levenshtein(nameCanon, normalizeName(candName)),
                              Max3(Len(nameCanon), Len(candName), 1))
      dobBoost  == IF e.dob # NoDate /\ c.dob # NoDate /\ e.dob = c.dob
                   THEN Pct(One, 25) ELSE 0
      natBoost  == IF Truthy(e.nationality) /\ Truthy(c.raw.nationality)
                      /\ toLowerCase(e.nationality) = toLowerCase(c.raw.nationality)
                   THEN Pct(One, 10) ELSE 0
  IN  Min2(One, nameSim + dobBoost + natBoost)

\* best after the loop over the candidates
PassportBest(st, e) ==
  LET Q(c) == c.doc_type \in {"PASSPORT", "PROMOTER_KYC"}
      candidates == limit(find(st, Q), PASSPORT_CANDIDATE_LIMIT)
      score == [i \in 1..Len(candidates) |-> PassportScore(e, candidates[i])]
  IN  IF candidates = <<>> THEN NoMatch
      ELSE LET best == BestIndex(score)
           IN  Match(candidates[best], "fuzzy_name_dob", score[best])

PassportFuzzy(st, e, m) ==
  LET best == PassportBest(st, e)
  IN  [main |-> IF best.matched /\ best.score >= PASSPORT_FUZZY_THRESHOLD
                THEN best ELSE m.main]

PassportChecks(e, m) ==
  [format_check   |-> PassportFormatCheck(e),
   date_validity  |-> PassportDateValidity(e),
   db_match_score |-> IF ~m.main.matched THEN 0
                      ELSE IF m.main.match_type = "fuzzy_name_dob"
                           THEN m.main.score
                      ELSE One,
   ocr_confidence |-> Coalesce(e.ocr_confidence, 0)]

PassportBuildReasons(checks, m) ==
  (IF checks.format_check = One THEN << <<"passport_fields_present">> >>
   ELSE <<>>)
  \o (IF checks.date_validity = One THEN << <<"passport_not_expired">> >>
      ELSE IF checks.date_validity = Pct(One, 50)
           THEN << <<"passport_expiry_unknown">> >>
           ELSE << <<"passport_expired">> >>)
  \o (IF checks.db_match_score = One THEN << <<"exact_db_match">> >>
      ELSE IF checks.db_match_score > 0
           THEN << <<"fuzzy_db_match_score", toFixed2(checks.db_match_score)>> >>
           ELSE <<>>)
  \o (IF checks.ocr_confidence # 0 /\ checks.ocr_confidence < Pct(One, 60)
      THEN << <<"low_ocr_confidence">> >> ELSE <<>>)
  \o (IF ~m.main.matched THEN << <<"no_db_match_found">> >> ELSE <<>>)

PassportVerdict(e, m) ==
  LET checks == PassportChecks(e, m)
      compositeFormat == (checks.format_check + checks.date_validity) \div 2
      scorer == [db_match_score |-> checks.db_match_score,
                 format_check   |-> compositeFormat,
                 ocr_confidence |-> checks.ocr_confidence]
      final_confidence ==
        computeFinalConfidence(scorer.db_match_score, scorer.format_check,
                               scorer.ocr_confidence)
  IN  [doc_type          |-> "PASSPORT",
       checks            |-> checks,
       scorer            |-> scorer,
       matched_record_id |-> m.main.record._id,
       matched_record    |-> MatchedRecordView(m.main),
       final_confidence  |-> final_confidence,
       status            |-> decideStatus(final_confidence),
       reasons           |-> PassportBuildReasons(checks, m)]

\* ------------------------------------------------------------------------
\* src/controllers/verifyPromoterKycController.js : verifyPromoterKycHandler
\* ------------------------------------------------------------------------
PromoterFormatCheck(e) ==
  IF Truthy(e.name)
       /\ (Truthy(e.id_hash) \/ Truthy(e.id_no_masked) \/ e.dob # NoDate)
  THEN One
  ELSE IF Truthy(e.name) THEN Pct(One, 60) ELSE 0

\* the exact lookups: client hash, then masked id
PromoterExact(st, e) ==
  LET ByHash(c)   == c.doc_type = "PROMOTER_KYC" /\ c.id_hash = e.id_hash
      ByMasked(c) == c.doc_type = "PROMOTER_KYC" /\ c.id_masked = e.id_no_masked
      r1 == IF Truthy(e.id_hash) THEN findOne(st, ByHash) ELSE NullRecord
      r2 == IF r1 = NullRecord /\ Truthy(e.id_no_masked)
            THEN findOne(st, ByMasked) ELSE NullRecord
  IN  [main |-> IF r1 # NullRecord THEN Match(r1, "exact_id_hash", NoNum)
                ELSE IF r2 # NullRecord
                     THEN Match(r2, "exact_id_masked", NoNum)
                ELSE NoMatch]

\* if (!matchedRecord && name)
PromoterFuzzyNeeded(e, m) == ~m.main.matched /\ Truthy(e.name)

PROMOTER_CANDIDATE_LIMIT == 300

\* the acceptance threshold 0.65
PROMOTER_FUZZY_THRESHOLD == Pct(One, 65)

PromoterScore(e, c) ==
  LET canonical  == normalizeName(e.name)
      candName   == OrElse(c.canonical_name, c.raw.name)
      similarity == Similarity(levenshtein(canonical, normalizeName(candName)),
                               Max3(Len(canonical), Len(candName), 1))
      dobBoost   == IF e.dob # NoDate /\ c.dob # NoDate /\ e.dob = c.dob
                    THEN Pct(One, 25) ELSE 0
  IN  Min2(One, similarity + dobBoost)

\* best after the loop over the candidates
PromoterBest(st, e) ==
  LET Q(c) == c.doc_type \in {"PROMOTER_KYC", "PAN", "TECH_CERT"}
      candidates == limit(find(st, Q), PROMOTER_CANDIDATE_LIMIT)
      score == [i \in 1..Len(candidates) |-> PromoterScore(e, candidates[i])]
  IN  IF candidates = <<>> THEN NoMatch
      ELSE LET best == BestIndex(score)
           IN  Match(candidates[best], "fuzzy_name_dob", score[best])

PromoterFuzzy(st, e, m) ==
  LET best == PromoterBest(st, e)
  IN  [main |-> IF best.matched /\ best.score >= PROMOTER_FUZZY_THRESHOLD
                THEN best ELSE m.main]

\* an upsert that does not wait for make_authoritative
PromoterUpsertUnasked(e, m) == ~m.main.matched

\* if (!matchedRecord && make_authoritative === true)
PromoterUpsertNeeded(e, m) == ~m.main.matched /\ e.make_authoritative = TRUE

\* the document the handler creates; now is the value of Date.now()
PromoterNewRecord(st, e, now) ==
  LET rawIdForSeed ==
        OrElse(e.id_no_masked,
               e.name \o <<"|">>
                 \o (IF e.dob # NoDate THEN <<ToString(e.dob)>> ELSE <<>>)
                 \o <<"|">> \o <<now>>)
      computedHash == sha256Hex(normalizeId(rawIdForSeed))
  IN  [_id            |-> NewObjectId(st),
       doc_type       |-> "PROMOTER_KYC",
       lookup_key     |-> <<"PROM-">> \o slice8(computedHash),
       id_hash        |-> computedHash,
       id_masked      |-> e.id_no_masked,
       canonical_name |-> normalizeName(e.name),
       dob            |-> e.dob,
       address        |-> e.address,
       raw            |-> [EmptyRaw EXCEPT !.name = e.name],
       source         |-> "ingest_make_authoritative"]

PromoterChecks(e, m) ==
  [format_check   |-> PromoterFormatCheck(e),
   db_match_score |-> IF ~m.main.matched THEN 0
                      ELSE IF m.main.match_type = "fuzzy_name_dob"
                           THEN m.main.score
                      ELSE One,
   ocr_confidence |-> Coalesce(e.ocr_confidence, 0)]

PromoterBuildReasons(checks, m) ==
  (IF checks.format_check = One THEN << <<"name_and_id_hint_present">> >>
   ELSE <<>>)
  \o (IF checks.db_match_score = One THEN << <<"exact_db_match">> >>
      ELSE IF checks.db_match_score > 0
           THEN << <<"fuzzy_db_match_score", toFixed2(checks.db_match_score)>> >>
           ELSE <<>>)
  \o (IF checks.ocr_confidence # 0 /\ checks.ocr_confidence < Pct(One, 60)
      THEN << <<"low_ocr_confidence">> >> ELSE <<>>)
  \o (IF ~m.main.matched THEN << <<"no_db_match_found">> >> ELSE <<>>)

PromoterVerdict(e, m) ==
  LET checks == PromoterChecks(e, m)
      final_confidence ==
        computeFinalConfidence(checks.db_match_score, checks.format_check,
                               checks.ocr_confidence)
  IN  [doc_type          |-> "PROMOTER_KYC",
       checks            |-> checks,
       scorer            |-> checks,
       matched_record_id |-> m.main.record._id,
       matched_record    |-> MatchedRecordView(m.main),
       final_confidence  |-> final_confidence,
       status            |-> decideStatus(final_confidence),
       reasons           |-> PromoterBuildReasons(checks, m)]

\* ------------------------------------------------------------------------
\* src/controllers/verifyTechCertController.js : verifyTechCertHandler
\* ------------------------------------------------------------------------
\* /^[A-Za-z0-9\-\/\.]{4,50}$/
RegNoRegex(s) ==
  /\ Len(s) >= 4
  /\ Len(s) <= 50
  /\ \A i \in 1..Len(s) :
       IsUpper(s[i]) \/ IsLower(s[i]) \/ s[i] \in Digits \/ s[i] \in {"-", "/", "."}

TechCertFormatCheck(e) ==
  IF Truthy(e.registration_no)
  THEN (IF RegNoRegex(trim(e.registration_no)) THEN One ELSE 0)
  ELSE Pct(One, 40)

TechCertDateValidity(e) ==
  IF e.valid_upto # NoDate
  THEN (IF e.valid_upto >= Now THEN One ELSE 0)
  ELSE Pct(One, 50)

\* the exact lookups: client hash, then digest of the registration number
TechCertExact(st, e) ==
  LET ByHash(c) == c.doc_type = "TECH_CERT" /\ c.id_hash = e.id_hash
      ByRaw(c)  == c.doc_type = "TECH_CERT"
                     /\ c.id_hash = sha256Hex(normalizeId(e.registration_no))
      r1 == IF Truthy(e.id_hash) THEN findOne(st, ByHash) ELSE NullRecord
      r2 == IF r1 = NullRecord /\ Truthy(e.registration_no)
            THEN findOne(st, ByRaw) ELSE NullRecord
  IN  [main |-> IF r1 # NullRecord THEN Match(r1, "exact_id_hash", NoNum)
                ELSE IF r2 # NullRecord THEN Match(r2, "exact_reg_no", NoNum)
                ELSE NoMatch]

\* if (!matchedRecord && name)
TechCertFuzzyNeeded(e, m) == ~m.main.matched /\ Truthy(e.name)

TECH_CERT_CANDIDATE_LIMIT == 200

\* the acceptance threshold 0.66
TECH_CERT_FUZZY_THRESHOLD == Pct(One, 66)

\* s.split(' ').slice(0, n).join(' '): s up to its n-th space
RECURSIVE FirstWords(_, _)
FirstWords(s, n) ==
  IF s = <<>> THEN <<>>
  ELSE IF Head(s) = " "
       THEN (IF n = 1 THEN <<>> ELSE <<" ">> \o FirstWords(Tail(s), n - 1))
       ELSE <<Head(s)>> \o FirstWords(Tail(s), n)

\* { $regex: pattern, $options: 'i' } for a pattern of plain characters
RegexI(value, pattern) == includes(toLowerCase(value), toLowerCase(pattern))

TechCertScore(e, c) ==
  LET nameCanon    == normalizeName(e.name)
      councilCanon == normalizeName(e.council_name)
      candName     == OrElse(c.canonical_name, c.raw.name)
      candCouncil  == OrElse(c.raw.council_name, c.canonical_name)
      nameSim      == Similarity(levenshtein(nameCanon, normalizeName(candName)),
                                 Max3(Len(nameCanon), Len(candName), 1))
      councilSim   == Similarity(levenshtein(councilCanon,
                                             normalizeName(candCouncil)),
                                 Max3(Len(councilCanon), Len(candCouncil), 1))
  IN  Pct(nameSim, 70) + Pct(councilSim, 30)

\* best after the loop over the candidates
TechCertBest(st, e) ==
  LET All(c) == c.doc_type = "TECH_CERT"
      Q(c)   == /\ c.doc_type = "TECH_CERT"
                /\ Truthy(e.council_name) =>
                     RegexI(c.raw.council_name, FirstWords(e.council_name, 4))
      candidates == limit(find(st, Q), TECH_CERT_CANDIDATE_LIMIT)
      effectiveCandidates ==
        IF candidates # <<>> THEN candidates
        ELSE limit(find(st, All), TECH_CERT_CANDIDATE_LIMIT)
      score == [i \in 1..Len(effectiveCandidates) |->
                  TechCertScore(e, effectiveCandidates[i])]
  IN  IF effectiveCandidates = <<>> THEN NoMatch
      ELSE LET best == BestIndex(score)
           IN  Match(effectiveCandidates[best], "fuzzy_name_council", score[best])

TechCertFuzzy(st, e, m) ==
  LET best == TechCertBest(st, e)
  IN  [main |-> IF best.matched /\ best.score >= TECH_CERT_FUZZY_THRESHOLD
                THEN best ELSE m.main]

TechCertChecks(e, m) ==
  [format_check   |-> TechCertFormatCheck(e),
   db_match_score |-> IF ~m.main.matched THEN 0
                      ELSE IF m.main.match_type = "fuzzy_name_council"
                           THEN m.main.score
                      ELSE One,
   date_validity  |-> TechCertDateValidity(e),
   ocr_confidence |-> Coalesce(e.ocr_confidence, 0)]

TechCertBuildReasons(checks, m) ==
  (IF checks.format_check = One THEN << <<"regno_format_ok">> >>
   ELSE << <<"no_regno_or_bad_format">> >>)
  \o (IF checks.date_validity = One THEN << <<"validity_ok">> >>
      ELSE IF checks.date_validity = 0 THEN << <<"validity_expired">> >>
           ELSE <<>>)
  \o (IF checks.db_match_score = One THEN << <<"exact_db_match">> >>
      ELSE IF checks.db_match_score > 0
           THEN << <<"fuzzy_db_match_score", toFixed2(checks.db_match_score)>> >>
           ELSE <<>>)
  \o (IF checks.ocr_confidence # 0 /\ checks.ocr_confidence < Pct(One, 60)
      THEN << <<"low_ocr_confidence">> >> ELSE <<>>)
  \o (IF ~m.main.matched THEN << <<"no_db_match_found">> >> ELSE <<>>)

TechCertVerdict(e, m) ==
  LET checks == TechCertChecks(e, m)
      combinedFormat == (checks.format_check + checks.date_validity) \div 2
      scorer == [db_match_score |-> checks.db_match_score,
                 format_check   |-> combinedFormat,
                 ocr_confidence |-> checks.ocr_confidence]
      final_confidence ==
        computeFinalConfidence(scorer.db_match_score, scorer.format_check,
                               scorer.ocr_confidence)
  IN  [doc_type          |-> "TECH_CERT",
       checks            |-> checks,
       scorer            |-> scorer,
       matched_record_id |-> m.main.record._id,
       matched_record    |-> MatchedRecordView(m.main),
       final_confidence  |-> final_confidence,
       status            |-> decideStatus(final_confidence),
       reasons           |-> TechCertBuildReasons(checks, m)]

\* ------------------------------------------------------------------------
\* src/controllers/verifyTrademarkController.nohash.js :
\* verifyTrademarkHandlerNoHash
\* ------------------------------------------------------------------------
TrademarkFormatCheck(e) ==
  IF Truthy(e.mark_name)
       /\ (Truthy(e.registration_no) \/ Truthy(e.application_no)
             \/ Truthy(e.owner_name))
  THEN One
  ELSE IF Truthy(e.mark_name) THEN Pct(One, 60) ELSE 0

TrademarkExpiryCheck(e) ==
  IF e.expiry_date # NoDate
  THEN (IF e.expiry_date >= Now THEN One ELSE 0)
  ELSE (IF e.status = "registered" THEN Pct(One, 80) ELSE Pct(One, 50))

TrademarkStatusCheck(e) ==
  IF e.status = "registered" THEN TrademarkExpiryCheck(e)
  ELSE IF e.status = "pending" THEN Pct(One, 60)
  ELSE IF e.status = "expired" THEN 0
  ELSE Pct(One, 50)

exactLookupByNumber(st, value) ==
  LET Q(c) == /\ c.doc_type = "TRADEMARK"
              /\ \/ c.raw.registration_no = value
                 \/ c.raw.application_no = value
                 \/ c.id_masked = value
  IN  IF ~Truthy(value) THEN NullRecord ELSE findOne(st, Q)

\* registration_no first, then application_no
TrademarkExact(st, e) ==
  LET r1 == IF Truthy(e.registration_no)
            THEN exactLookupByNumber(st, e.registration_no) ELSE NullRecord
      r2 == IF r1 = NullRecord /\ Truthy(e.application_no)
            THEN exactLookupByNumber(st, e.application_no) ELSE NullRecord
  IN  [main |-> IF r1 # NullRecord THEN Match(r1, "", NoNum)
                ELSE IF r2 # NullRecord THEN Match(r2, "", NoNum)
                ELSE NoMatch]

\* the else branch of if (matched)
TrademarkFuzzyNeeded(e, m) == ~m.main.matched

TRADEMARK_CANDIDATE_LIMIT == 500

\* the acceptance threshold 0.62
TRADEMARK_FUZZY_THRESHOLD == Pct(One, 62)

TrademarkScore(name, owner, c) ==
  LET nameCanon     == trim(toLowerCase(name))
      candMarkCanon == toLowerCase(OrElse(c.raw.mark_name, c.canonical_name))
      sim   == Similarity(levenshtein(nameCanon, candMarkCanon),
                          Max3(Len(nameCanon), Len(candMarkCanon), 1))
      ownA  == toLowerCase(owner)
      ownB  == toLowerCase(c.raw.owner_name)
      ownSim == Similarity(levenshtein(ownA, ownB), Max3(Len(ownA), Len(ownB), 1))
  IN  IF Truthy(owner) /\ Truthy(c.raw.owner_name)
      THEN Min2(One, sim + Pct(ownSim, 20))
      ELSE sim

\* best after the loop over the candidates
bestMark(st, name, owner, cls) ==
  LET Q(c) == /\ c.doc_type = "TRADEMARK"
              /\ Truthy(cls) => RegexI(c.raw.class, cls)
      candidates == limit(find(st, Q), TRADEMARK_CANDIDATE_LIMIT)
      score == [i \in 1..Len(candidates) |->
                  TrademarkScore(name, owner, candidates[i])]
  IN  IF ~Truthy(name) \/ candidates = <<>> THEN NoMatch
      ELSE LET best == BestIndex(score)
           IN  Match(candidates[best], "", score[best])

fuzzyLookupMark(st, name, owner, cls, threshold) ==
  LET best == bestMark(st, name, owner, cls)
  IN  IF best.matched /\ best.score >= threshold THEN best ELSE NoMatch

TrademarkFuzzy(st, e, m) ==
  LET fuzzy == fuzzyLookupMark(st, e.mark_name, e.owner_name, e.class,
                               TRADEMARK_FUZZY_THRESHOLD)
  IN  [main |-> IF fuzzy.matched THEN fuzzy ELSE m.main]

\* checks when the handler scores: db_match_score is the adjusted score
\* Math.min(1, db_match_score * 0.85 + status_check * 0.15)
TrademarkChecks(e, m) ==
  LET db == IF ~m.main.matched THEN 0
            ELSE IF m.main.score = NoNum THEN One
            ELSE m.main.score
      status_check == TrademarkStatusCheck(e)
  IN  [format_check   |-> TrademarkFormatCheck(e),
       db_match_score |-> Min2(One, Pct(db, 85) + Pct(status_check, 15)),
       status_check   |-> status_check,
       expiry_check   |-> TrademarkExpiryCheck(e),
       ocr_confidence |-> Coalesce(e.ocr_confidence, 0)]

TrademarkBuildReasons(checks, m) ==
  (IF checks.format_check = One THEN << <<"fields_present">> >> ELSE <<>>)
  \o (IF checks.db_match_score = One THEN << <<"exact_db_match">> >>
      ELSE IF checks.db_match_score > 0
           THEN << <<"fuzzy_db_match_score", toFixed2(checks.db_match_score)>> >>
           ELSE <<>>)
  \o (IF checks.status_check < Pct(One, 60)
      THEN << <<"tm_status_not_preferable">> >> ELSE <<>>)
  \o (IF checks.expiry_check = 0 THEN << <<"tm_expired">> >> ELSE <<>>)
  \o (IF ~m.main.matched THEN << <<"no_db_match_found">> >> ELSE <<>>)
  \o (IF checks.ocr_confidence # 0 /\ checks.ocr_confidence < Pct(One, 60)
      THEN << <<"low_ocr_confidence">> >> ELSE <<>>)

\* the matched_record of the trademark response has no match_type; its
\* id_masked falls back to the registration or application number
TrademarkView(match) ==
  IF match.record # NullRecord
  THEN [record_id  |-> match.record._id,
        match_type |-> "",
        id_masked  |-> OrElse(match.record.id_masked,
                         OrElse(match.record.raw.registration_no,
                                match.record.raw.application_no))]
  ELSE NullView

TrademarkVerdict(e, m) ==
  LET checks == TrademarkChecks(e, m)
      scorer == [db_match_score |-> checks.db_match_score,
                 format_check   |-> checks.format_check,
                 ocr_confidence |-> checks.ocr_confidence]
      final_confidence ==
        computeFinalConfidence(scorer.db_match_score, scorer.format_check,
                               scorer.ocr_confidence)
  IN  [doc_type          |-> "TRADEMARK",
       checks            |-> checks,
       scorer            |-> scorer,
       matched_record_id |-> m.main.record._id,
       matched_record    |-> TrademarkView(m.main),
       final_confidence  |-> final_confidence,
       status            |-> decideStatus(final_confidence),
       reasons           |-> TrademarkBuildReasons(checks, m)]

\* ------------------------------------------------------------------------
\* src/controllers/verifyElectricityController.nohash.js :
\* verifyElectricityHandlerNoHash
\* ------------------------------------------------------------------------
ElectricityFormatCheck(e) ==
  IF Truthy(e.consumer_name) /\ e.billing_date # NoDate THEN One
  ELSE IF Truthy(e.consumer_name) THEN Pct(One, 60) ELSE 0

\* recency of the billing date: within 90 days 1, within 180 days 0.6, else 0
ElectricityRecency(e) ==
  LET days == Now - e.billing_date
  IN  IF e.billing_date = NoDate THEN 0
      ELSE IF days <= 90 THEN One
      ELSE IF days <= 180 THEN Pct(One, 60)
      ELSE 0

exactLookupElectricity(st, value) ==
  LET Q(c) == /\ c.doc_type \in {"ELECTRICITY_BILL", "UTILITY", "LEASE", "INCORP"}
              /\ \/ c.raw.account_no = value
                 \/ c.raw.service_connection_no = value
                 \/ c.raw.bill_number = value
                 \/ c.id_masked = value
                 \/ c.raw.registration_no = value
  IN  IF ~Truthy(value) THEN NullRecord ELSE findOne(st, Q)

\* the exact attempts: masked account number, service connection number,
\* bill number, meter number
ElectricityExact(st, e) ==
  LET ByMeter(c) == /\ c.doc_type \in {"ELECTRICITY_BILL", "UTILITY"}
                    /\ c.raw.meter_no = e.meter_no
      r1 == exactLookupElectricity(st, e.consumer_account_no_masked)
      r2 == IF r1 = NullRecord
            THEN exactLookupElectricity(st, e.service_connection_no) ELSE r1
      r3 == IF r2 = NullRecord
            THEN exactLookupElectricity(st, e.bill_number) ELSE r2
      r4 == IF r3 = NullRecord /\ Truthy(e.meter_no)
            THEN findOne(st, ByMeter) ELSE r3
  IN  [consumer_record |-> IF r4 # NullRecord THEN Match(r4, "", NoNum)
                           ELSE NoMatch,
       discom_record   |-> NoMatch]

\* if (!matchedRec)
ElectricityFuzzyNeeded(e, m) == ~m.consumer_record.matched

ELECTRICITY_CANDIDATE_LIMIT == 500

\* the acceptance threshold 0.62
ELECTRICITY_FUZZY_THRESHOLD == Pct(One, 62)

ConsumerScore(name, addr, discom, c) ==
  LET nameCanon == trim(toLowerCase(name))
      candName  == toLowerCase(OrElse(c.canonical_name, c.raw.consumer_name))
      sim   == Similarity(levenshtein(nameCanon, candName),
                          Max3(Len(nameCanon), Len(candName), 1))
      dA    == toLowerCase(discom)
      dB    == toLowerCase(c.raw.distributor_name)
      dSim  == Similarity(levenshtein(dA, dB), Max3(Len(dA), Len(dB), 1))
      aA    == toLowerCase(addr)
      aB    == toLowerCase(c.address)
      aSim  == Similarity(levenshtein(aA, aB), Max3(Len(aA), Len(aB), 1))
      b1    == IF Truthy(discom) /\ Truthy(c.raw.distributor_name)
                    /\ dSim > Pct(One, 70)
               THEN Pct(One, 15) ELSE 0
      b2    == IF Truthy(addr) /\ Truthy(c.address) /\ aSim > Pct(One, 60)
               THEN Pct(One, 12) ELSE 0
  IN  Min2(One, sim + b1 + b2)

\* best after the loop over the candidates
bestConsumer(st, name, addr, discom) ==
  LET Bills(c)    == c.doc_type \in {"ELECTRICITY_BILL", "UTILITY"}
      ByDiscom(c) == Bills(c)
                       /\ RegexI(c.raw.distributor_name, FirstWords(discom, 3))
      ByAddr(c)   == Bills(c) /\ RegexI(c.address, FirstWords(addr, 4))
      first  == IF Truthy(discom)
                THEN limit(find(st, ByDiscom), ELECTRICITY_CANDIDATE_LIMIT)
                ELSE <<>>
      candidates ==
        IF first # <<>> THEN first
        ELSE IF Truthy(addr)
             THEN limit(find(st, ByAddr), ELECTRICITY_CANDIDATE_LIMIT)
             ELSE limit(find(st, Bills), ELECTRICITY_CANDIDATE_LIMIT)
      score == [i \in 1..Len(candidates) |->
                  ConsumerScore(name, addr, discom, candidates[i])]
  IN  IF ~Truthy(name) \/ candidates = <<>> THEN NoMatch
      ELSE LET best == BestIndex(score)
           IN  Match(candidates[best], "", score[best])

fuzzyLookupConsumer(st, name, addr, discom, threshold) ==
  LET best == bestConsumer(st, name, addr, discom)
  IN  IF best.matched /\ best.score >= threshold THEN best ELSE NoMatch

ElectricityFuzzy(st, e, m) ==
  LET fuzzy == fuzzyLookupConsumer(st, e.consumer_name, e.address,
                                   e.distributor_name,
                                   ELECTRICITY_FUZZY_THRESHOLD)
  IN  [m EXCEPT !.consumer_record = IF fuzzy.matched THEN fuzzy ELSE @]

\* if (distributor_name): the lookup of the distribution company
ElectricityAuxNeeded(e) == Truthy(e.distributor_name)

ElectricityAux(st, e, m) ==
  LET Q(c) == /\ c.doc_type = "DISCOM"
              /\ \/ RegexI(c.raw.distributor_name,
                           FirstWords(e.distributor_name, 3))
                 \/ c.id_masked = e.distributor_name
      matchedDiscom == findOne(st, Q)
  IN  [m EXCEPT !.discom_record =
         IF matchedDiscom # NullRecord THEN Match(matchedDiscom, "", One)
         ELSE @]

\* components.x.score || 0
ComponentScore(match) ==
  IF ~match.matched THEN 0 ELSE IF match.score = NoNum THEN One ELSE match.score

\* the consumption plausibility; energies in kWh, loads in kW, periods in days
ElectricityConsumption(e, m) ==
  LET daysInPeriod ==
        IF e.billing_period_from # NoDate /\ e.billing_period_to # NoDate
        THEN Max2(1, e.billing_period_to - e.billing_period_from) ELSE 30
      hasLoad == e.sanctioned_load_kw # NoNum /\ e.sanctioned_load_kw # 0
      \* expectedKwh * 100 = load * 24 * 0.30 * days / 30 * 100
      expected100 == e.sanctioned_load_kw * daysInPeriod * 24
      denom100 == Max2(100, expected100)
      prev == m.consumer_record.record.raw.previous_month_kwh
  IN  IF e.energy_kwh = NoNum \/ e.energy_kwh = 0 THEN Pct(One, 30)
      ELSE IF hasLoad /\ expected100 # 0
      THEN (IF e.energy_kwh * 1000 >= 6 * denom100
                 /\ e.energy_kwh * 1000 <= 18 * denom100 THEN One
            ELSE IF e.energy_kwh * 1000 >= 4 * denom100
                      /\ e.energy_kwh * 1000 <= 25 * denom100 THEN Pct(One, 60)
            ELSE 0)
      ELSE IF m.consumer_record.matched /\ prev # NoNum
      THEN (IF prev = 0 THEN (IF e.energy_kwh > 0 THEN Pct(One, 60) ELSE One)
            ELSE IF e.energy_kwh * 2 >= prev /\ e.energy_kwh <= 2 * prev THEN One
            ELSE IF e.energy_kwh * 4 >= prev /\ e.energy_kwh <= 3 * prev
                 THEN Pct(One, 60)
            ELSE 0)
      ELSE Pct(One, 60)

toFixed3(x) == RoundTo(x, Scale \div 1000)

\* the weights of the database score: consumer 0.55, discom 0.15,
\* recency 0.15, consumption 0.15; their sum is 1
ElectricityDbScore(e, m) ==
  Pct(ComponentScore(m.consumer_record), 55)
    + Pct(ComponentScore(m.discom_record), 15)
    + Pct(ElectricityRecency(e), 15)
    + Pct(toFixed3(ElectricityConsumption(e, m)), 15)

ElectricityFormatComposite(e) ==
  LET hasAccountHint == Truthy(e.consumer_account_no_masked)
                          \/ Truthy(e.service_connection_no) \/ Truthy(e.meter_no)
  IN  (ElectricityFormatCheck(e) + (IF hasAccountHint THEN One ELSE 0)) \div 2

\* the checks the handler persists
ElectricityChecks(e, m) ==
  [db_score                 |-> ElectricityDbScore(e, m),
   format_composite         |-> ElectricityFormatComposite(e),
   recency_score            |-> ElectricityRecency(e),
   consumption_plausibility |-> toFixed3(ElectricityConsumption(e, m)),
   ocr_confidence           |-> Coalesce(e.ocr_confidence, 0)]

ElectricityBuildReasons(m, checks, dbScore, finalConfidence) ==
  (IF ~m.consumer_record.matched THEN << <<"no_consumer_record_match">> >>
   ELSE <<>>)
  \o (IF ~m.discom_record.matched THEN << <<"no_discom_match">> >> ELSE <<>>)
  \o (IF checks.recency_score = One THEN << <<"recent_bill">> >>
      ELSE IF checks.recency_score = Pct(One, 60)
           THEN << <<"bill_recent_medium">> >>
           ELSE << <<"bill_old">> >>)
  \o (IF checks.consumption_plausibility >= Pct(One, 90)
      THEN << <<"consumption_plausible">> >>
      ELSE IF checks.consumption_plausibility >= Pct(One, 60)
           THEN << <<"consumption_plausible_partial">> >>
           ELSE << <<"consumption_not_plausible_or_unknown">> >>)
  \o (IF checks.ocr_confidence # 0 /\ checks.ocr_confidence < Pct(One, 60)
      THEN << <<"low_ocr_confidence">> >> ELSE <<>>)
  \o << <<"db_score", toFixed3(dbScore)>>,
        <<"final_confidence", toFixed3(finalConfidence)>> >>

\* matched_consumer of the response
ElectricityView(match) ==
  IF match.record # NullRecord
  THEN [record_id  |-> match.record._id,
        match_type |-> "",
        id_masked  |-> OrElse(match.record.id_masked, match.record.raw.account_no)]
  ELSE NullView

\* the schema of Verification has no matched_consumer_id, matched_discom_id
\* or components: the stored document has no matched_record_id
ElectricityVerdict(e, m) ==
  LET checks == ElectricityChecks(e, m)
      scorer == [db_match_score |-> checks.db_score,
                 format_check   |-> checks.format_composite,
                 ocr_confidence |-> checks.ocr_confidence]
      final_confidence ==
        computeFinalConfidence(scorer.db_match_score, scorer.format_check,
                               scorer.ocr_confidence)
  IN  [doc_type          |-> "ELECTRICITY_BILL",
       checks            |-> checks,
       scorer            |-> scorer,
       matched_record_id |-> 0,
       matched_record    |-> ElectricityView(m.consumer_record),
       final_confidence  |-> final_confidence,
       status            |-> decideStatus(final_confidence),
       reasons           |-> ElectricityBuildReasons(m, checks, checks.db_score,
                                                     final_confidence)]

\* ------------------------------------------------------------------------
\* src/controllers/verifyLoanLicenseController.js : verifyLoanLicenseHandler
\* ------------------------------------------------------------------------
exactLookupByField(st, docType, value) ==
  LET Q(c) == /\ c.doc_type = docType
              /\ \/ c.raw.certificate_no = value
                 \/ c.raw.registration_no = value
                 \/ c.id_masked = value
  IN  IF ~Truthy(value) THEN NullRecord ELSE findOne(st, Q)

\* a || b on records
OrRecord(a, b) == IF a # NullRecord THEN a ELSE b

\* a component matched by an exact lookup
ExactComponent(rec) == IF rec # NullRecord THEN Match(rec, "", NoNum) ELSE NoMatch

LOAN_CANDIDATE_LIMIT == 500

\* best after the loop over the candidates
bestByName(st, docTypes, name) ==
  LET Q(c) == c.doc_type \in docTypes
      candidates == limit(find(st, Q), LOAN_CANDIDATE_LIMIT)
      nameCanon == trim(toLowerCase(name))
      score == [i \in 1..Len(candidates) |->
                  LET cand == toLowerCase(OrElse(candidates[i].canonical_name,
                                                 candidates[i].raw.name))
                  IN  Similarity(levenshtein(nameCanon, cand),
                                 Max3(Len(nameCanon), Len(cand), 1))]
  IN  IF ~Truthy(name) \/ candidates = <<>> THEN NoMatch
      ELSE LET best == BestIndex(score)
           IN  Match(candidates[best], "", score[best])

fuzzyLookupByName(st, docTypes, name, threshold) ==
  LET best == bestByName(st, docTypes, name)
  IN  IF best.matched /\ best.score >= threshold THEN best ELSE NoMatch

\* the records a loop over the values pushes: one per value that is found
FoundRecords(values, Lookup(_)) ==
  LET found == [i \in 1..Len(values) |-> Lookup(values[i])]
      Hit(rec) == rec # NullRecord
  IN  SelectSeq(found, Hit)

\* the exact lookups of all the components
LoanLicenseExact(st, e) ==
  LET ByCode(code) ==
        LET Q(c) == /\ c.doc_type = "PRODUCT_DOSSIER"
                    /\ toLowerCase(c.raw.product_code) = toLowerCase(code)
        IN  findOne(st, Q)
      ByPanMasked(panMasked) ==
        LET Q(c) == c.doc_type = "PROMOTER_KYC" /\ c.id_masked = panMasked
        IN  findOne(st, Q)
      products == FoundRecords(e.product_codes, ByCode)
      staff    == FoundRecords(e.tech_staff_pan_masked, ByPanMasked)
  IN  [applicant_incorp |->
         ExactComponent(exactLookupByField(st, "INCORP",
                                           e.applicant_incorporation_no)),
       applicant_gst |->
         ExactComponent(exactLookupByField(st, "GST", e.applicant_gst_no)),
       agreement |->
         ExactComponent(OrRecord(
           exactLookupByField(st, "LOAN_AGREEMENT", e.agreement_number),
           exactLookupByField(st, "MOA", e.agreement_number))),
       cm_incorp |->
         ExactComponent(exactLookupByField(st, "INCORP", e.cm_incorporation_no)),
       cm_gst |->
         ExactComponent(exactLookupByField(st, "GST", e.cm_gst_no)),
       cm_manufacturer_license |->
         ExactComponent(OrRecord(
           exactLookupByField(st, "MANUFACTURING_LICENSE",
                              e.cm_manufacturer_license_no),
           exactLookupByField(st, "GMP", e.cm_manufacturer_license_no))),
       cm_gmp |->
         ExactComponent(exactLookupByField(st, "GMP", e.cm_gmp_certificate_no)),
       products |->
         IF products # <<>> THEN Match(products[1], "", NoNum) ELSE NoMatch,
       tech_staff |->
         IF staff # <<>> THEN Match(staff[1], "", NoNum) ELSE NoMatch]

\* a fuzzy fallback is due for the agreement, the products or the staff
LoanLicenseFuzzyNeeded(e, m) ==
  \/ ~m.agreement.matched /\ Truthy(e.agreement_title)
  \/ ~m.products.matched /\ e.product_names # <<>>
  \/ ~m.tech_staff.matched /\ e.tech_staff_names # <<>>

\* the fuzzy fallbacks: thresholds 0.58 (agreement), 0.65 (product), 0.64 (staff)
LoanLicenseFuzzy(st, e, m) ==
  LET ByProductName(name) ==
        fuzzyLookupByName(st, {"PRODUCT_DOSSIER"}, name, Pct(One, 65)).record
      ByStaffName(name) ==
        fuzzyLookupByName(st, {"TECH_CERT", "PROMOTER_KYC", "PAN"}, name,
                          Pct(One, 64)).record
      agreement == fuzzyLookupByName(st, {"LOAN_AGREEMENT"}, e.agreement_title,
                                     Pct(One, 58))
      products == FoundRecords(e.product_names, ByProductName)
      staff    == FoundRecords(e.tech_staff_names, ByStaffName)
  IN  [m EXCEPT
         !.agreement  = IF ~@.matched /\ agreement.matched THEN agreement ELSE @,
         !.products   = IF ~@.matched /\ products # <<>>
                        THEN Match(products[1], "", One) ELSE @,
         !.tech_staff = IF ~@.matched /\ staff # <<>>
                        THEN Match(staff[1], "", One) ELSE @]

LoanAgreementDateScore(e) ==
  LET signed == IF e.agreement_signed_date # NoDate
                     /\ e.agreement_signed_date <= Now
                THEN One ELSE Pct(One, 50)
  IN  IF e.agreement_effective_from # NoDate /\ e.agreement_effective_to # NoDate
           /\ e.agreement_effective_from <= e.agreement_effective_to
      THEN Min2(One, signed + Pct(One, 10))
      ELSE signed

\* the weighted sum of the component scores; the weights sum to 1
LoanRawDb(m) ==
  Pct(ComponentScore(m.applicant_incorp), 18)
    + Pct(ComponentScore(m.applicant_gst), 7)
    + Pct(ComponentScore(m.agreement), 25)
    + Pct(ComponentScore(m.cm_incorp), 10)
    + Pct(ComponentScore(m.cm_gst), 5)
    + Pct(ComponentScore(m.cm_manufacturer_license), 15)
    + Pct(ComponentScore(m.cm_gmp), 10)
    + Pct(ComponentScore(m.products), 6)
    + Pct(ComponentScore(m.tech_staff), 4)

\* a database score without the cap at 1
LoanDbScoreUncapped(e, m) ==
  LoanRawDb(m) + Pct(LoanAgreementDateScore(e), 2)

\* Math.min(1, normalized_db_score + agreementDateScore * 0.02)
LoanDbScore(e, m) == Min2(One, LoanRawDb(m) + Pct(LoanAgreementDateScore(e), 2))

LoanLicenseChecks(e, m) ==
  LET essentialOk == /\ m.applicant_incorp.matched
                     /\ m.agreement.matched
                     /\ m.cm_manufacturer_license.matched
                     /\ m.cm_gmp.matched
                     /\ m.products.matched
  IN  [db_score           |-> LoanDbScore(e, m),
       format_check       |-> IF essentialOk THEN One ELSE Pct(One, 25),
       agreementDateScore |-> LoanAgreementDateScore(e),
       ocr_confidence     |-> Coalesce(e.bundle_ocr_confidence, 0)]

LoanLicenseBuildReasons(m, dbScore, finalConfidence) ==
  (IF ~m.applicant_incorp.matched THEN << <<"missing_applicant_incorp">> >>
   ELSE <<>>)
  \o (IF ~m.agreement.matched THEN << <<"missing_agreement">> >> ELSE <<>>)
  \o (IF ~m.cm_manufacturer_license.matched
      THEN << <<"missing_cm_manufacturer_license">> >> ELSE <<>>)
  \o (IF ~m.cm_gmp.matched THEN << <<"missing_cm_gmp">> >> ELSE <<>>)
  \o (IF ~m.products.matched THEN << <<"no_product_dossier_found">> >> ELSE <<>>)
  \o (IF ~m.tech_staff.matched THEN << <<"insufficient_technical_staff">> >>
      ELSE <<>>)
  \o << <<"db_score", toFixed3(dbScore)>>,
        <<"final_confidence", toFixed3(finalConfidence)>> >>

\* the handler passes no matched_record_id and the response has no
\* matched_record
LoanLicenseVerdict(e, m) ==
  LET checks == LoanLicenseChecks(e, m)
      scorer == [db_match_score |-> checks.db_score,
                 format_check   |-> checks.format_check,
                 ocr_confidence |-> checks.ocr_confidence]
      final_confidence ==
        computeFinalConfidence(scorer.db_match_score, scorer.format_check,
                               scorer.ocr_confidence)
  IN  [doc_type          |-> "LOAN_LICENSE",
       checks            |-> checks,
       scorer            |-> scorer,
       matched_record_id |-> 0,
       matched_record    |-> NullView,
       final_confidence  |-> final_confidence,
       status            |-> decideStatus(final_confidence),
       reasons           |-> LoanLicenseBuildReasons(m, checks.db_score,
                                                     final_confidence)]

\* ------------------------------------------------------------------------
\* The data of the runs: the seed file and the request bodies
\* ------------------------------------------------------------------------
PanA == <<"A","B","C","D","E","1","2","3","4","F">>

PanB == <<"A","B","C","D","E","1","2","3","4","G">>

PanC == <<"A","B","C","D","E","1","2","3","4","H">>

PanD == <<"A","B","C","D","E","1","2","3","4","J">>

PanE == <<"A","B","C","D","E","1","2","3","4","K">>

\* twenty letters: thirteen of them shared by Name20 and Near20
Name20 == [i \in 1..20 |-> "q"]

Near20 == [i \in 1..20 |-> IF i <= 13 THEN "q" ELSE "z"]

DobA == 10

DobB == 20

PanItems ==
  << [EmptyItem EXCEPT !.doc_type = "PAN", !.raw_id = PanA,
        !.id_masked = <<"X","X","3","4","F">>, !.name = <<"A","n","n">>,
        !.dob = DobA],
     [EmptyItem EXCEPT !.doc_type = "PAN", !.raw_id = PanB,
        !.name = <<"b","o","b","b","y">>],
     [EmptyItem EXCEPT !.doc_type = "PAN", !.raw_id = PanD,
        !.id_masked = <<"X","X","3","4","J">>, !.name = Name20],
     [EmptyItem EXCEPT !.doc_type = "PAN", !.raw_id = PanE,
        !.id_masked = <<"X","X","3","4","K">>,
        !.name = <<"b","o","b","b","i">>] >>

AadA == <<"1","2","3","4","5","6","7","8","9","0","1","2">>

AadB == <<"1","2","3","4","5","6","7","8","3","4","5","6">>

AadhaarItems ==
  << [EmptyItem EXCEPT !.doc_type = "AADHAAR", !.raw_id = AadA,
        !.id_masked = <<"X","9","0","1","2">>, !.name = <<"r","a","v","i">>,
        !.dob = DobA],
     [EmptyItem EXCEPT !.doc_type = "AADHAAR", !.raw_id = AadB,
        !.id_masked = <<"X","3","4","5","6">>, !.name = <<"s","i","t","a">>,
        !.dob = DobA] >>

GstA == <<"2","2","A","B","C","D","E","1","2","3","4","F","1","Z","5">>

GstItems ==
  << [EmptyItem EXCEPT !.doc_type = "GST", !.raw_id = GstA,
        !.id_masked = <<"2","2","X","Z","5">>, !.name = <<"A","c","m","e">>] >>

DobC == 30

PassA == <<"P","1","2","3","4","5","6">>

PassMaskedA == <<"P","*","5","6">>

PassportItems ==
  << [EmptyItem EXCEPT !.doc_type = "PASSPORT", !.raw_id = PassA,
        !.id_masked = PassMaskedA, !.name = <<"m","a","y","a">>, !.dob = DobA,
        !.raw = [EmptyRaw EXCEPT !.nationality = <<"I","N">>]] >>

PromoterItems ==
  << [EmptyItem EXCEPT !.doc_type = "PROMOTER_KYC",
        !.id_masked = <<"K","*","9">>, !.name = <<"o","m","a","r">>,
        !.dob = DobB, !.raw = [EmptyRaw EXCEPT !.name = <<"O","m","a","r">>]] >>

RegNoA == <<"T","C","-","1","2">>

TechCertItems ==
  << [EmptyItem EXCEPT !.doc_type = "TECH_CERT", !.raw_id = RegNoA,
        !.id_masked = <<"T","C","*","2">>, !.name = <<"r","a","o">>,
        !.raw = [EmptyRaw EXCEPT !.name = <<"R","a","o">>,
                                 !.council_name = <<"A","y","u">>]] >>

TmRegNo == <<"T","M","-","1">>

TmAppNo == <<"A","P","-","1">>

TrademarkItems ==
  << [EmptyItem EXCEPT !.doc_type = "TRADEMARK", !.raw_id = TmRegNo,
        !.name = <<"Z","e","n">>,
        !.raw = [EmptyRaw EXCEPT !.registration_no = TmRegNo,
                   !.application_no = TmAppNo, !.mark_name = <<"Z","e","n">>,
                   !.owner_name = <<"A","c","m","e">>, !.class = <<"5">>]] >>

AccountMasked == <<"X","-","7","7">>

BillNo == <<"B","-","1">>

ElectricityItems ==
  << [EmptyItem EXCEPT !.doc_type = "ELECTRICITY_BILL",
        !.raw_id = <<"A","C","-","7","7">>, !.id_masked = AccountMasked,
        !.name = <<"N","o","o","r">>,
        !.raw = [EmptyRaw EXCEPT !.account_no = <<"A","C","-","7","7">>,
                   !.bill_number = BillNo, !.consumer_name = <<"N","o","o","r">>,
                   !.distributor_name = <<"T","a","t","a">>,
                   !.previous_month_kwh = 100]],
     [EmptyItem EXCEPT !.doc_type = "DISCOM", !.raw_id = <<"D","-","1">>,
        !.name = <<"T","a","t","a">>,
        !.raw = [EmptyRaw EXCEPT !.distributor_name = <<"T","a","t","a">>]] >>



IncorpNo == <<"U","1">>

AgreementNo == <<"L","A","-","1">>

LicenseNo == <<"M","L","-","1">>

GmpNo == <<"G","M","-","1">>

LoanItems ==
  << [EmptyItem EXCEPT !.doc_type = "INCORP", !.raw_id = IncorpNo,
        !.name = <<"a","c","m","e">>,
        !.raw = [EmptyRaw EXCEPT !.registration_no = IncorpNo]],
     [EmptyItem EXCEPT !.doc_type = "LOAN_AGREEMENT", !.raw_id = AgreementNo,
        !.id_masked = AgreementNo, !.name = <<"s","u","p","p","l","y">>],
     [EmptyItem EXCEPT !.doc_type = "MANUFACTURING_LICENSE",
        !.raw_id = LicenseNo,
        !.raw = [EmptyRaw EXCEPT !.certificate_no = LicenseNo]],
     [EmptyItem EXCEPT !.doc_type = "GMP", !.raw_id = GmpNo,
        !.raw = [EmptyRaw EXCEPT !.certificate_no = GmpNo]],
     [EmptyItem EXCEPT !.doc_type = "PRODUCT_DOSSIER",
        !.raw_id = <<"P","C","1">>, !.name = <<"b","a","l","m">>,
        !.raw = [EmptyRaw EXCEPT !.product_code = <<"P","C","1">>]] >>

PanExtracted ==
  [pan |-> <<>>, id_hash |-> <<>>, name |-> <<>>, dob |-> NoDate,
   ocr_confidence |-> NoNum]

PanBodies ==
  { \* both keys resolve, to different records, and the name is the name of
    \* the digest's record; 0.5 + 0.25 + 0.25 * 0.4 = 0.85
    [PanExtracted EXCEPT !.pan = PanA, !.id_hash = sha256Hex(PanB),
       !.name = <<"b","o","b","b","y">>, !.ocr_confidence = Pct(One, 40)],
    \* the digest alone; 0.5 + 0 + 0.25 * 0.4 = 0.6
    [PanExtracted EXCEPT !.id_hash = sha256Hex(PanB),
       !.ocr_confidence = Pct(One, 40)],
    \* the raw pan misses, the digest would resolve
    [PanExtracted EXCEPT !.pan = PanC, !.id_hash = sha256Hex(PanB),
       !.ocr_confidence = One],
    \* no identifier; a name one edit away from a three-letter name
    [PanExtracted EXCEPT !.name = <<"a","n","m">>, !.ocr_confidence = One],
    \* no identifier; similarity exactly 0.65
    [PanExtracted EXCEPT !.name = Near20],
    \* no identifier, no ocr; similarity 0.6: two edits in five letters
    [PanExtracted EXCEPT !.name = <<"b","o","b","x","x">>,
       !.ocr_confidence = 0],
    \* the pan misses and the name is the record's name
    [PanExtracted EXCEPT !.pan = PanC, !.name = <<" ","a","n","n">>,
       !.ocr_confidence = One],
    \* the name is the record's name but the date of birth differs
    [PanExtracted EXCEPT !.name = <<"a","n","n">>, !.dob = DobB,
       !.ocr_confidence = One],
    \* no identifier; the name of one record, one edit away from a later one
    [PanExtracted EXCEPT !.name = <<"B","o","b","b","y">>,
       !.ocr_confidence = One] }

AadhaarExtracted ==
  [aadhaar |-> <<>>, id_hash |-> <<>>, aadhaar_last4 |-> <<>>, name |-> <<>>,
   dob |-> NoDate, ocr_confidence |-> NoNum]

AadhaarBodies ==
  { \* both keys resolve, to different records
    [AadhaarExtracted EXCEPT !.aadhaar = AadA, !.id_hash = sha256Hex(AadB),
       !.name = <<"r","a","v","i">>, !.dob = DobA, !.ocr_confidence = One],
    \* the digest misses, the raw id would resolve; the name is far
    [AadhaarExtracted EXCEPT !.aadhaar = AadA,
       !.id_hash = sha256Hex(<<"0">>), !.name = <<"x","y">>, !.dob = DobA,
       !.ocr_confidence = One],
    \* last four digits and a name one edit in four away: similarity 0.75
    [AadhaarExtracted EXCEPT !.aadhaar_last4 = <<"9","0","1","2">>,
       !.name = <<"R","a","v","e">>, !.dob = DobA,
       !.ocr_confidence = Pct(One, 50)],
    \* two edits in four: similarity 0.5; no ocr
    [AadhaarExtracted EXCEPT !.name = <<"s","i","x","x">>, !.dob = DobA,
       !.ocr_confidence = 0] }

GstExtracted ==
  [gstin |-> <<>>, id_hash |-> <<>>, legal_name |-> <<>>, trade_name |-> <<>>,
   registration_date |-> NoDate, ocr_confidence |-> NoNum]

GstBodies ==
  { \* the digest misses, the gstin would resolve; the name is far
    [GstExtracted EXCEPT !.gstin = GstA, !.id_hash = sha256Hex(<<"0">>),
       !.legal_name = <<"x","y">>, !.ocr_confidence = One],
    \* the gstin alone
    [GstExtracted EXCEPT !.gstin = GstA, !.legal_name = <<"a","c","m","e">>,
       !.ocr_confidence = One],
    \* no identifier; one edit in four: similarity 0.75
    [GstExtracted EXCEPT !.legal_name = <<"a","c","n","e">>,
       !.ocr_confidence = Pct(One, 50)],
    \* no identifier; two edits in four: similarity 0.5; no ocr
    [GstExtracted EXCEPT !.legal_name = <<"a","c","x","x">>,
       !.ocr_confidence = 0] }

PassportExtracted ==
  [passport_no_masked |-> <<>>, passport_no |-> <<>>, id_hash |-> <<>>,
   name |-> <<>>, dob |-> NoDate, nationality |-> <<>>,
   expiry_date |-> NoDate, ocr_confidence |-> NoNum]

PassportBodies ==
  { \* the digest misses and the passport number resolves; not expired
    [PassportExtracted EXCEPT !.passport_no = PassA,
       !.id_hash = sha256Hex(<<"0">>), !.name = <<"m","a","y","a">>,
       !.dob = DobA, !.expiry_date = Now + 1, !.ocr_confidence = One],
    \* only the masked number
    [PassportExtracted EXCEPT !.passport_no_masked = PassMaskedA,
       !.name = <<"x","y">>, !.dob = DobC, !.ocr_confidence = One],
    \* no identifier; name 0.75, date of birth and nationality boosts
    [PassportExtracted EXCEPT !.name = <<"m","a","y","o">>, !.dob = DobA,
       !.nationality = <<"i","n">>, !.expiry_date = Now,
       !.ocr_confidence = One],
    \* no identifier; name 0.5 against a promoter record, date of birth boost
    [PassportExtracted EXCEPT !.name = <<"o","m","x","x">>, !.dob = DobB,
       !.ocr_confidence = Pct(One, 50)],
    \* no identifier; nothing near; expired; no ocr
    [PassportExtracted EXCEPT !.name = <<"z","z","z","z">>, !.dob = DobC,
       !.expiry_date = Now - 1, !.ocr_confidence = 0] }

PromoterExtracted ==
  [name |-> <<>>, id_no_masked |-> <<>>, id_hash |-> <<>>, dob |-> NoDate,
   address |-> <<>>, ocr_confidence |-> NoNum, make_authoritative |-> FALSE]

PromoterBodies ==
  { \* the digest resolves
    [PromoterExtracted EXCEPT !.name = <<"o","m","a","r">>,
       !.id_hash = sha256Hex(<<"K","*","9">>), !.ocr_confidence = One],
    \* a masked id in lower case, nothing near, make_authoritative
    [PromoterExtracted EXCEPT !.name = <<"l","e","o">>,
       !.id_no_masked = <<"k","*","9">>, !.make_authoritative = TRUE,
       !.ocr_confidence = One],
    \* no identifier, nothing near, no ocr, make_authoritative
    [PromoterExtracted EXCEPT !.name = <<"z","e","d">>,
       !.make_authoritative = TRUE, !.ocr_confidence = 0],
    \* no identifier; one edit in four: similarity 0.75
    [PromoterExtracted EXCEPT !.name = <<"o","m","e","r">>,
       !.ocr_confidence = Pct(One, 50)],
    \* no identifier, nothing near, no ocr
    [PromoterExtracted EXCEPT !.name = <<"i","v","y">>,
       !.ocr_confidence = 0] }

TechCertExtracted ==
  [name |-> <<>>, registration_no |-> <<>>, id_hash |-> <<>>,
   council_name |-> <<>>, valid_upto |-> NoDate, ocr_confidence |-> NoNum]

TechCertBodies ==
  { \* the digest misses and the registration number resolves; still valid
    [TechCertExtracted EXCEPT !.name = <<"r","a","o">>,
       !.registration_no = <<"t","c","-","1","2">>,
       !.id_hash = sha256Hex(<<"0">>), !.council_name = <<"a","y","u">>,
       !.valid_upto = Now + 1, !.ocr_confidence = One],
    \* no identifier; name 2/3, council 1: combined 0.7667
    [TechCertExtracted EXCEPT !.name = <<"r","a","u">>,
       !.council_name = <<"a","y","u">>, !.ocr_confidence = Pct(One, 50)],
    \* no identifier; name 1/3, council 1: combined 0.5333; no ocr
    [TechCertExtracted EXCEPT !.name = <<"r","x","x">>,
       !.council_name = <<"a","y","u">>, !.ocr_confidence = 0],
    \* no identifier; an unknown council and the record's name: combined 0.7
    [TechCertExtracted EXCEPT !.name = <<"r","a","o">>,
       !.council_name = <<"z","z","z">>, !.valid_upto = Now - 1,
       !.ocr_confidence = One] }

TrademarkExtracted ==
  [registration_no |-> <<>>, application_no |-> <<>>, mark_name |-> <<>>,
   class |-> <<>>, owner_name |-> <<>>, status |-> "", expiry_date |-> NoDate,
   ocr_confidence |-> NoNum]

TrademarkBodies ==
  { \* the registration number resolves; registered and not expired
    [TrademarkExtracted EXCEPT !.registration_no = TmRegNo,
       !.mark_name = <<"z","e","n">>, !.status = "registered",
       !.expiry_date = Now + 1, !.ocr_confidence = One],
    \* the registration number misses, the application number resolves; pending
    [TrademarkExtracted EXCEPT !.registration_no = <<"T","M","-","9">>,
       !.application_no = TmAppNo, !.mark_name = <<"z","e","n">>,
       !.status = "pending", !.ocr_confidence = One],
    \* no number; mark 2/3 and the owner's name: 0.8667
    [TrademarkExtracted EXCEPT !.mark_name = <<"Z","e","m">>,
       !.owner_name = <<"a","c","m","e">>, !.class = <<"5">>,
       !.status = "registered", !.ocr_confidence = Pct(One, 50)],
    \* no number; mark 1/3; registered; no ocr
    [TrademarkExtracted EXCEPT !.mark_name = <<"z","x","x">>,
       !.status = "registered", !.ocr_confidence = 0],
    \* no number; mark 1/3; expired; no ocr
    [TrademarkExtracted EXCEPT !.mark_name = <<"z","y","y">>,
       !.status = "expired", !.expiry_date = Now - 1, !.ocr_confidence = 0],
    \* the registration number of the record in lower case; an unknown mark
    [TrademarkExtracted EXCEPT !.registration_no = <<"t","m","-","1">>,
       !.mark_name = <<"q","q","q">>, !.status = "registered",
       !.expiry_date = Now + 1, !.ocr_confidence = One] }

ElectricityExtracted ==
  [consumer_name |-> <<>>, consumer_account_no_masked |-> <<>>,
   service_connection_no |-> <<>>, meter_no |-> <<>>,
   distributor_name |-> <<>>, billing_date |-> NoDate,
   billing_period_from |-> NoDate, billing_period_to |-> NoDate,
   energy_kwh |-> NoNum, sanctioned_load_kw |-> NoNum, address |-> <<>>,
   bill_number |-> <<>>, ocr_confidence |-> NoNum]

ElectricityBodies ==
  { \* the masked account number resolves; known distributor; recent bill;
    \* consumption close to the previous month's
    [ElectricityExtracted EXCEPT !.consumer_name = <<"n","o","o","r">>,
       !.consumer_account_no_masked = AccountMasked,
       !.distributor_name = <<"t","a","t","a">>, !.billing_date = Now - 10,
       !.energy_kwh = 120, !.ocr_confidence = One],
    \* the bill number resolves; no distributor; no consumption
    [ElectricityExtracted EXCEPT !.consumer_name = <<"n","o","o","r">>,
       !.bill_number = BillNo, !.billing_date = Now - 100,
       !.ocr_confidence = One],
    \* no number; name 0.75 and the distributor boost: 0.9
    [ElectricityExtracted EXCEPT !.consumer_name = <<"n","o","o","n">>,
       !.distributor_name = <<"T","a","t","a">>, !.billing_date = Now - 10,
       !.energy_kwh = 500, !.sanctioned_load_kw = 2,
       !.ocr_confidence = Pct(One, 50)],
    \* no number; nothing near; an old bill; no ocr
    [ElectricityExtracted EXCEPT !.consumer_name = <<"z","z","z","z">>,
       !.billing_date = Now - 200, !.ocr_confidence = 0] }

LoanLicenseExtracted ==
  [applicant_incorporation_no |-> <<>>, applicant_gst_no |-> <<>>,
   agreement_number |-> <<>>, agreement_title |-> <<>>,
   cm_incorporation_no |-> <<>>, cm_gst_no |-> <<>>,
   cm_manufacturer_license_no |-> <<>>, cm_gmp_certificate_no |-> <<>>,
   product_codes |-> <<>>, product_names |-> <<>>,
   tech_staff_pan_masked |-> <<>>, tech_staff_names |-> <<>>,
   agreement_signed_date |-> NoDate, agreement_effective_from |-> NoDate,
   agreement_effective_to |-> NoDate, bundle_ocr_confidence |-> NoNum]

LoanLicenseBodies ==
  { \* every component resolves by its number; plausible dates
    [LoanLicenseExtracted EXCEPT !.applicant_incorporation_no = IncorpNo,
       !.applicant_gst_no = <<"2","2","X","Z","5">>,
       !.agreement_number = AgreementNo, !.cm_incorporation_no = IncorpNo,
       !.cm_gst_no = <<"2","2","X","Z","5">>,
       !.cm_manufacturer_license_no = LicenseNo,
       !.cm_gmp_certificate_no = GmpNo,
       !.product_codes = << <<"p","c","1">> >>,
       !.tech_staff_pan_masked = << <<"K","*","9">> >>,
       !.agreement_signed_date = Now - 5,
       !.agreement_effective_from = Now - 5,
       !.agreement_effective_to = Now + 5, !.bundle_ocr_confidence = One],
    \* nothing supplied
    LoanLicenseExtracted,
    \* the agreement, the product and the staff by name only
    [LoanLicenseExtracted EXCEPT !.applicant_incorporation_no = IncorpNo,
       !.agreement_title = <<"S","u","p","p","l","i">>,
       !.product_names = << <<"b","a","l","m">>, <<"z","z">> >>,
       !.tech_staff_names = << <<"r","a","o">> >>,
       !.agreement_signed_date = Now + 5,
       !.bundle_ocr_confidence = Pct(One, 50)] }

\* ------------------------------------------------------------------------
\* The routes and their handlers
\* ------------------------------------------------------------------------
Routes == {"pan", "aadhaar", "gst", "passport", "promoter-kyc",
           "tech-cert", "trademark", "electricity", "loan-license"}

\* the seed file of a run: the records of the doc types its handler queries
SeedFileOf(rt) ==
  CASE rt = "pan" -> PanItems
    [] rt = "aadhaar" -> AadhaarItems
    [] rt = "gst" -> GstItems
    [] rt = "passport" -> PassportItems \o PromoterItems
    [] rt = "promoter-kyc" -> PromoterItems \o PanItems \o TechCertItems
    [] rt = "tech-cert" -> TechCertItems
    [] rt = "trademark" -> TrademarkItems
    [] rt = "electricity" -> ElectricityItems
    [] rt = "loan-license" ->
         LoanItems \o GstItems \o TechCertItems \o PromoterItems

\* the operations the seeding script builds from each file
SeedFileOps == [rt \in Routes |-> SeedOps(SeedFileOf(rt))]

Bodies(rt) ==
  CASE rt = "pan" -> PanBodies
    [] rt = "aadhaar" -> AadhaarBodies
    [] rt = "gst" -> GstBodies
    [] rt = "passport" -> PassportBodies
    [] rt = "promoter-kyc" -> PromoterBodies
    [] rt = "tech-cert" -> TechCertBodies
    [] rt = "trademark" -> TrademarkBodies
    [] rt = "electricity" -> ElectricityBodies
    [] rt = "loan-license" -> LoanLicenseBodies

ExactOf(rt, st, e) ==
  CASE rt = "pan" -> PanExact(st, e)
    [] rt = "aadhaar" -> AadhaarExact(st, e)
    [] rt = "gst" -> GstExact(st, e)
    [] rt = "passport" -> PassportExact(st, e)
    [] rt = "promoter-kyc" -> PromoterExact(st, e)
    [] rt = "tech-cert" -> TechCertExact(st, e)
    [] rt = "trademark" -> TrademarkExact(st, e)
    [] rt = "electricity" -> ElectricityExact(st, e)
    [] rt = "loan-license" -> LoanLicenseExact(st, e)

FuzzyNeededOf(rt, e, m) ==
  CASE rt = "pan" -> PanFuzzyNeeded(e, m)
    [] rt = "aadhaar" -> AadhaarFuzzyNeeded(e, m)
    [] rt = "gst" -> GstFuzzyNeeded(e, m)
    [] rt = "passport" -> PassportFuzzyNeeded(e, m)
    [] rt = "promoter-kyc" -> PromoterFuzzyNeeded(e, m)
    [] rt = "tech-cert" -> TechCertFuzzyNeeded(e, m)
    [] rt = "trademark" -> TrademarkFuzzyNeeded(e, m)
    [] rt = "electricity" -> ElectricityFuzzyNeeded(e, m)
    [] rt = "loan-license" -> LoanLicenseFuzzyNeeded(e, m)

FuzzyOf(rt, st, e, m) ==
  CASE rt = "pan" -> PanFuzzy(st, e, m)
    [] rt = "aadhaar" -> AadhaarFuzzy(st, e, m)
    [] rt = "gst" -> GstFuzzy(st, e, m)
    [] rt = "passport" -> PassportFuzzy(st, e, m)
    [] rt = "promoter-kyc" -> PromoterFuzzy(st, e, m)
    [] rt = "tech-cert" -> TechCertFuzzy(st, e, m)
    [] rt = "trademark" -> TrademarkFuzzy(st, e, m)
    [] rt = "electricity" -> ElectricityFuzzy(st, e, m)
    [] rt = "loan-license" -> LoanLicenseFuzzy(st, e, m)

VerdictOf(rt, e, m) ==
  CASE rt = "pan" -> PanVerdict(e, m)
    [] rt = "aadhaar" -> AadhaarVerdict(e, m)
    [] rt = "gst" -> GstVerdict(e, m)
    [] rt = "passport" -> PassportVerdict(e, m)
    [] rt = "promoter-kyc" -> PromoterVerdict(e, m)
    [] rt = "tech-cert" -> TechCertVerdict(e, m)
    [] rt = "trademark" -> TrademarkVerdict(e, m)
    [] rt = "electricity" -> ElectricityVerdict(e, m)
    [] rt = "loan-license" -> LoanLicenseVerdict(e, m)

\* the lookups a handler makes after its fuzzy fallback
AuxNeededOf(rt, e, m) ==
  IF rt = "electricity" THEN ElectricityAuxNeeded(e) ELSE FALSE

AuxOf(rt, st, e, m) ==
  CASE rt = "electricity" -> ElectricityAux(st, e, m)

\* only the promoter handler writes to the store
UpsertNeededOf(rt, e, m) ==
  IF rt = "promoter-kyc" THEN PromoterUpsertNeeded(e, m) ELSE FALSE

\* ------------------------------------------------------------------------
\* The state machine
\* ------------------------------------------------------------------------
MaxRequests == 2

Slots == 1..MaxRequests

RequestIds == { <<"r","q","1">> }

NoVerdict == [doc_type |-> ""]

NoResponse == [none |-> TRUE]

IdleSlot ==
  [pc |-> "IDLE", body |-> <<>>, request_id |-> <<>>, extracted |-> <<>>,
   m |-> <<>>, verdict |-> NoVerdict, http |-> 0, response |-> NoResponse]

\* ------------------------------------------------------------------------
\* src/validation/*.js and src/middleware/validate.js
\* ------------------------------------------------------------------------
\* a request body without the key `extracted`
NoExtracted == [absent |-> TRUE]

\* the JSON body of a POST: the keys the schemas know, and whether a key
\* that no schema knows is present
Body(request_id, doc_type, extracted, unknown) ==
  [request_id |-> request_id, doc_type |-> doc_type, extracted |-> extracted,
   unknown |-> unknown]

\* Joi.number().min(0).max(1).optional()
JoiUnitInterval(x) == x = NoNum \/ (0 <= x /\ x <= One)

\* Joi.string().hex().length(64).optional()
JoiHex64(s) == Truthy(s) => Head(s) = "#"

\* /^[A-Z0-9]{6,9}$/
PassportNoRegex(s) ==
  /\ Len(s) >= 6
  /\ Len(s) <= 9
  /\ \A i \in 1..Len(s) : IsUpper(s[i]) \/ s[i] \in Digits

\* the keys of `extracted` in verifyPanSchema
PanSchemaExtracted(e) ==
  /\ Truthy(e.pan) => PanRegex(e.pan)
  /\ JoiHex64(e.id_hash)
  /\ JoiUnitInterval(e.ocr_confidence)

\* the keys of `extracted` in verifyAadhaarSchema
AadhaarSchemaExtracted(e) ==
  /\ Truthy(e.aadhaar) => DigitsRegex(e.aadhaar, 12)
  /\ JoiHex64(e.id_hash)
  /\ Truthy(e.aadhaar_last4) => DigitsRegex(e.aadhaar_last4, 4)
  /\ Truthy(e.name)
  /\ e.dob # NoDate
  /\ JoiUnitInterval(e.ocr_confidence)

\* the keys of `extracted` in verifyGstSchema
GstSchemaExtracted(e) ==
  /\ Truthy(e.gstin) => GstinRegex(e.gstin)
  /\ JoiHex64(e.id_hash)
  /\ Truthy(e.legal_name)
  /\ JoiUnitInterval(e.ocr_confidence)

\* the keys of `extracted` in verifyPassportSchema
PassportSchemaExtracted(e) ==
  /\ Truthy(e.passport_no) => PassportNoRegex(e.passport_no)
  /\ JoiHex64(e.id_hash)
  /\ Truthy(e.name)
  /\ e.dob # NoDate
  /\ JoiUnitInterval(e.ocr_confidence)

\* the keys of `extracted` in verifyPromoterKycSchema
PromoterSchemaExtracted(e) ==
  /\ Truthy(e.name)
  /\ JoiHex64(e.id_hash)
  /\ JoiUnitInterval(e.ocr_confidence)
  /\ e.make_authoritative \in BOOLEAN

\* the keys of `extracted` in verifyTechCertSchema
TechCertSchemaExtracted(e) ==
  /\ Truthy(e.name)
  /\ JoiHex64(e.id_hash)
  /\ Truthy(e.council_name)
  /\ JoiUnitInterval(e.ocr_confidence)

\* the keys of `extracted` in verifyTrademarkSchema
TrademarkSchemaExtracted(e) ==
  /\ Truthy(e.mark_name)
  /\ e.status \in {"", "registered", "pending", "expired", "other"}
  /\ JoiUnitInterval(e.ocr_confidence)

\* the keys of `extracted` in verifyElectricitySchema
ElectricitySchemaExtracted(e) ==
  /\ Truthy(e.consumer_name)
  /\ e.billing_date # NoDate
  /\ JoiUnitInterval(e.ocr_confidence)

\* the keys of `extracted` in verifyLoanLicenseSchema: all optional
LoanLicenseSchemaExtracted(e) == JoiUnitInterval(e.bundle_ocr_confidence)

\* doc_type: Joi.string().valid(...).required() of each route's schema
SchemaDocType(rt) ==
  CASE rt = "pan" -> "PAN"
    [] rt = "aadhaar" -> "AADHAAR"
    [] rt = "gst" -> "GST"
    [] rt = "passport" -> "PASSPORT"
    [] rt = "promoter-kyc" -> "PROMOTER_KYC"
    [] rt = "tech-cert" -> "TECH_CERT"
    [] rt = "trademark" -> "TRADEMARK"
    [] rt = "electricity" -> "ELECTRICITY_BILL"
    [] rt = "loan-license" -> "LOAN_LICENSE"

SchemaExtractedOf(rt, e) ==
  CASE rt = "pan" -> PanSchemaExtracted(e)
    [] rt = "aadhaar" -> AadhaarSchemaExtracted(e)
    [] rt = "gst" -> GstSchemaExtracted(e)
    [] rt = "passport" -> PassportSchemaExtracted(e)
    [] rt = "promoter-kyc" -> PromoterSchemaExtracted(e)
    [] rt = "tech-cert" -> TechCertSchemaExtracted(e)
    [] rt = "trademark" -> TrademarkSchemaExtracted(e)
    [] rt = "electricity" -> ElectricitySchemaExtracted(e)
    [] rt = "loan-license" -> LoanLicenseSchemaExtracted(e)

\* schema.validate(body, { abortEarly: false, allowUnknown }) returns no error
SchemaValidate(rt, body, allowUnknown) ==
  /\ Truthy(body.request_id)
  /\ body.doc_type = SchemaDocType(rt)
  /\ "absent" \notin DOMAIN body.extracted
  /\ SchemaExtractedOf(rt, body.extracted)
  /\ allowUnknown \/ ~body.unknown

\* a middleware that lets unknown keys through
validateAllowUnknown(rt, body) == SchemaValidate(rt, body, TRUE)

\* validate(schema): the body passes to the handler
validate(rt, body) == SchemaValidate(rt, body, FALSE)

\* bodies a schema refuses for a key of `extracted`: a required key is
\* missing, or a key is malformed
MalformedExtracted(rt) ==
  CASE rt = "pan" ->
         { [PanExtracted EXCEPT !.pan = <<"a","b","c","d","e","1","2","3","4","f">>],
           [PanExtracted EXCEPT !.id_hash = PanB, !.name = <<"a","n","n">>] }
    [] rt = "aadhaar" ->
         { [AadhaarExtracted EXCEPT !.aadhaar = AadA, !.dob = DobA],
           [AadhaarExtracted EXCEPT !.aadhaar_last4 = <<"9","0","1">>,
              !.name = <<"r","a","v","i">>, !.dob = DobA] }
    [] rt = "gst" ->
         { [GstExtracted EXCEPT !.gstin = GstA],
           [GstExtracted EXCEPT !.gstin = toLowerCase(GstA),
              !.legal_name = <<"a","c","m","e">>] }
    [] rt = "passport" ->
         { [PassportExtracted EXCEPT !.passport_no = PassA,
              !.name = <<"m","a","y","a">>],
           [PassportExtracted EXCEPT !.passport_no = <<"P","1">>,
              !.name = <<"m","a","y","a">>, !.dob = DobA] }
    [] rt = "promoter-kyc" ->
         { [PromoterExtracted EXCEPT !.id_no_masked = <<"K","*","9">>,
              !.make_authoritative = TRUE],
           [PromoterExtracted EXCEPT !.name = <<"o","m","a","r">>,
              !.ocr_confidence = 2 * One] }
    [] rt = "tech-cert" ->
         { [TechCertExtracted EXCEPT !.name = <<"r","a","o">>,
              !.registration_no = RegNoA],
           [TechCertExtracted EXCEPT !.name = <<"r","a","o">>,
              !.council_name = <<"a","y","u">>, !.id_hash = RegNoA] }
    [] rt = "trademark" ->
         { [TrademarkExtracted EXCEPT !.registration_no = TmRegNo],
           [TrademarkExtracted EXCEPT !.mark_name = <<"z","e","n">>,
              !.status = "lapsed"] }
    [] rt = "electricity" ->
         { [ElectricityExtracted EXCEPT !.consumer_name = <<"n","o","o","r">>,
              !.bill_number = BillNo],
           [ElectricityExtracted EXCEPT !.billing_date = Now - 10,
              !.consumer_account_no_masked = AccountMasked] }
    [] rt = "loan-license" ->
         { [LoanLicenseExtracted EXCEPT !.agreement_number = AgreementNo,
              !.bundle_ocr_confidence = 2 * One] }

\* the bodies a client posts to a route: the well-formed ones, and for one
\* well-formed `extracted` each way of breaking the envelope
Submissions(rt) ==
  LET good == CHOOSE e \in Bodies(rt) : TRUE
  IN  { Body(id, SchemaDocType(rt), e, FALSE) :
          id \in RequestIds, e \in Bodies(rt) \cup MalformedExtracted(rt) }
      \cup { Body(<<>>, SchemaDocType(rt), good, FALSE),
             Body(<<"r","q","1">>, "OTHER", good, FALSE),
             Body(<<"r","q","1">>, SchemaDocType(rt), NoExtracted, FALSE),
             Body(<<"r","q","1">>, SchemaDocType(rt), good, TRUE) }

VARIABLES
  route,    \* the endpoint this run exercises
  store,    \* the AuthoritativeRecord collection, in natural order
  ledger,   \* the Verification collection, in insertion order
  req,      \* the requests: position and local variables of each handler call
  calc      \* the scratch record of a stand-alone evaluation of a pure function

vars == <<route, store, ledger, req, calc>>

\* no stand-alone evaluation is under way
NoCalc == [pc |-> "NONE"]

Init ==
  /\ route \in Routes
  /\ store = <<>>
  /\ ledger = <<>>
  /\ req = [r \in Slots |-> IdleSlot]
  /\ calc = NoCalc

\* node seed-authoritative.js --file=...
Seed ==
  /\ store' = bulkWrite(store, SeedFileOps[route])
  /\ UNCHANGED <<route, ledger, req, calc>>

\* a handler call that has neither responded nor failed
InFlight(r) == req[r].pc \notin {"IDLE", "INVALID", "RESPONDED", "FAILED"}

\* the state of a handler call that has returned: its locals are gone
Returned(pc, http, response) ==
  [IdleSlot EXCEPT !.pc = pc, !.http = http, !.response = response]

\* a catch block that answers with the exception's own message
InternalServerErrorRaw ==
  Returned("FAILED", 500, [message |-> "E11000 duplicate key error"])

\* catch (err) { console.error(...);
\*   return res.status(500).json({ error: 'internal_server_error' }) }
InternalServerError ==
  Returned("FAILED", 500, [error |-> "internal_server_error"])

\* a client posts a body to the route
Submit(r) ==
  /\ req[r].pc = "IDLE"
  /\ r > 1 => req[r - 1].pc # "IDLE"
  /\ \A q \in Slots : ~InFlight(q)
  /\ \E b \in Submissions(route) :
       req' = [req EXCEPT ![r] = [@ EXCEPT !.pc = "SUBMITTED", !.body = b]]
  /\ UNCHANGED <<route, store, ledger, calc>>

\* validate(schema), error branch:
\* res.status(400).json({ error: 'validation_error', details })
Reject(r) ==
  /\ req[r].pc = "SUBMITTED"
  /\ ~validate(route, req[r].body)
  /\ req' = [req EXCEPT ![r] =
               Returned("INVALID", 400, [error |-> "validation_error"])]
  /\ UNCHANGED <<route, store, ledger, calc>>

\* validate(schema), next(): the validated body reaches the handler, which
\* destructures request_id and extracted from it
Receive(r) ==
  /\ req[r].pc = "SUBMITTED"
  /\ validate(route, req[r].body)
  /\ req' = [req EXCEPT ![r] = [@ EXCEPT !.pc = "RECEIVED",
                                 !.request_id = req[r].body.request_id,
                                 !.extracted = req[r].body.extracted]]
  /\ UNCHANGED <<route, store, ledger, calc>>

\* the exact lookups of the handler
ExactMatch(r) ==
  /\ req[r].pc = "RECEIVED"
  /\ req' = [req EXCEPT ![r] = [@ EXCEPT !.pc = "EXACT_MATCH_ATTEMPTED",
                                 !.m = ExactOf(route, store, req[r].extracted)]]
  /\ UNCHANGED <<route, store, ledger, calc>>

\* the fuzzy fallbacks of the handler
FuzzyMatch(r) ==
  /\ req[r].pc = "EXACT_MATCH_ATTEMPTED"
  /\ FuzzyNeededOf(route, req[r].extracted, req[r].m)
  /\ req' = [req EXCEPT ![r] = [@ EXCEPT !.pc = "FUZZY_MATCH_ATTEMPTED",
                 !.m = FuzzyOf(route, store, req[r].extracted, req[r].m)]]
  /\ UNCHANGED <<route, store, ledger, calc>>

\* the fuzzy fallback is over, or was not needed
FuzzyDone(r) ==
  \/ req[r].pc = "FUZZY_MATCH_ATTEMPTED"
  \/ /\ req[r].pc = "EXACT_MATCH_ATTEMPTED"
     /\ ~FuzzyNeededOf(route, req[r].extracted, req[r].m)

\* the lookups that follow the fuzzy fallback
AuxLookup(r) ==
  /\ FuzzyDone(r)
  /\ AuxNeededOf(route, req[r].extracted, req[r].m)
  /\ req' = [req EXCEPT ![r] = [@ EXCEPT !.pc = "AUX_LOOKED_UP",
                 !.m = AuxOf(route, store, req[r].extracted, req[r].m)]]
  /\ UNCHANGED <<route, store, ledger, calc>>

\* the lookups are over
LookupsDone(r) ==
  \/ req[r].pc = "AUX_LOOKED_UP"
  \/ FuzzyDone(r) /\ ~AuxNeededOf(route, req[r].extracted, req[r].m)

\* AuthoritativeRecord.create(doc) of the promoter handler: the unique index
\* refuses a second document with the same doc_type and id_hash, and the
\* handler then answers 500
Upsert(r) ==
  /\ LookupsDone(r)
  /\ UpsertNeededOf(route, req[r].extracted, req[r].m)
  /\ LET newRec == PromoterNewRecord(store, req[r].extracted, ToString(r))
     IN  IF DuplicateKey(store, newRec.doc_type, newRec.id_hash)
         THEN /\ req' = [req EXCEPT ![r] = InternalServerError]
              /\ UNCHANGED store
         ELSE /\ store' = Append(store, newRec)
              /\ req' = [req EXCEPT ![r] = [@ EXCEPT !.pc = "UPSERTED",
                           !.m = [main |-> Match(newRec, "upserted", NoNum)]]]
  /\ UNCHANGED <<route, ledger, calc>>

\* nothing of the handler but the scoring and the Verification.create is left
ReadyToPersist(r) ==
  \/ req[r].pc = "UPSERTED"
  \/ LookupsDone(r) /\ ~UpsertNeededOf(route, req[r].extracted, req[r].m)

\* `ver-${uuidv4()}`: one fresh id per handler call
NewVerificationId(r) == <<"ver", r>>

\* the document Verification.create inserts
VerificationDoc(r, v) ==
  [verification_id   |-> NewVerificationId(r),
   request_id        |-> req[r].request_id,
   doc_type          |-> v.doc_type,
   extracted         |-> req[r].extracted,
   checks            |-> v.checks,
   matched_record_id |-> v.matched_record_id,
   final_confidence  |-> v.final_confidence,
   status            |-> v.status,
   reasons           |-> v.reasons]

\* a Verification.create that replaces the collection by the new document
VerificationCreateOverwriting(led, doc) == <<doc>>

\* a Verification.create that inserts nothing
VerificationCreateLost(led, doc) == led

\* Verification.create(doc)
VerificationCreate(led, doc) == Append(led, doc)

\* scoring, decision and the insertion of the audit record
Persist(r) ==
  /\ ReadyToPersist(r)
  /\ LET v == VerdictOf(route, req[r].extracted, req[r].m)
     IN  /\ ledger' = VerificationCreate(ledger, VerificationDoc(r, v))
         /\ req' = [req EXCEPT ![r] = [@ EXCEPT !.pc = "PERSISTED",
                                                !.verdict = v]]
  /\ UNCHANGED <<route, store, calc>>

\* a response that announces VERIFIED whatever was decided and recorded
ResponseOfOptimistic(r) ==
  LET v == req[r].verdict
  IN  [verification_id  |-> NewVerificationId(r),
       status           |-> "VERIFIED",
       final_confidence |-> toFixed4(v.final_confidence),
       scores           |-> v.checks,
       matched_record   |-> v.matched_record,
       reasons          |-> v.reasons]

\* the body of the 200 response
ResponseOf(r) ==
  LET v == req[r].verdict
  IN  [verification_id  |-> NewVerificationId(r),
       status           |-> v.status,
       final_confidence |-> toFixed4(v.final_confidence),
       scores           |-> v.checks,
       matched_record   |-> v.matched_record,
       reasons          |-> v.reasons]

\* res.status(200).json(response)
Respond(r) ==
  /\ req[r].pc = "PERSISTED"
  /\ req' = [req EXCEPT ![r] = Returned("RESPONDED", 200, ResponseOf(r))]
  /\ UNCHANGED <<route, store, ledger, calc>>

\* an awaited database operation throws: catch, then
\* res.status(500).json({ error: 'internal_server_error' })
DbError(r) ==
  /\ req[r].pc \in {"RECEIVED", "EXACT_MATCH_ATTEMPTED",
                    "FUZZY_MATCH_ATTEMPTED", "AUX_LOOKED_UP", "UPSERTED"}
  /\ req' = [req EXCEPT ![r] = InternalServerError]
  /\ UNCHANGED <<route, store, ledger, calc>>

Next ==
  \/ Seed
  \/ \E r \in Slots : Submit(r)
  \/ \E r \in Slots : Reject(r)
  \/ \E r \in Slots : Receive(r)
  \/ \E r \in Slots : ExactMatch(r)
  \/ \E r \in Slots : FuzzyMatch(r)
  \/ \E r \in Slots : AuxLookup(r)
  \/ \E r \in Slots : Upsert(r)
  \/ \E r \in Slots : Persist(r)
  \/ \E r \in Slots : Respond(r)
  \/ \E r \in Slots : DbError(r)

Spec == Init /\ [][Next]_vars

\* ------------------------------------------------------------------------
\* Properties
\* ------------------------------------------------------------------------
\* a component matched by an exact lookup: { record, match_type } without score
IsExact(match) ==
  match.matched /\ match.score = NoNum /\ match.match_type # "upserted"

\* a component matched with a score
IsFuzzy(match) == match.matched /\ match.score # NoNum

\* the Verification documents whose verification_id is id
DocsOf(id) == { i \in DOMAIN ledger : ledger[i].verification_id = id }

\* C1: a request answered with HTTP 200 has exactly one Verification record
\* in the ledger, carrying the verification_id and the status of its
\* response, whatever that status is.
C1_CompletedRunPersistedOnce ==
  \A r \in Slots :
    req[r].http = 200 =>
      /\ Cardinality(DocsOf(req[r].response.verification_id)) = 1
      /\ \A i \in DocsOf(req[r].response.verification_id) :
           ledger[i].status = req[r].response.status

\* two requests answered 200, one REJECTED with no matched record and one
\* not REJECTED, and two records in the ledger
C1_Witness ==
  /\ req[1].http = 200 /\ req[2].http = 200
  /\ req[1].response.status = "REJECTED"
  /\ req[1].response.matched_record = NullView
  /\ req[2].response.status # "REJECTED"
  /\ Len(ledger) = 2

\* C2: when every request received so far has failed, nothing a request
\* wrote is persisted: the ledger is empty and the store holds no record
\* that a handler created.
C2_FailedRequestLeavesNothing ==
  (\A r \in Slots : req[r].pc \in {"IDLE", "FAILED"}) =>
    /\ ledger = <<>>
    /\ \A i \in DOMAIN store : store[i].source # "ingest_make_authoritative"

\* the document type whose records a route's identifier lookups read
DocTypeOf(rt) ==
  CASE rt = "pan" -> "PAN"
    [] rt = "aadhaar" -> "AADHAAR"
    [] rt = "gst" -> "GST"
    [] rt = "passport" -> "PASSPORT"
    [] rt = "promoter-kyc" -> "PROMOTER_KYC"
    [] rt = "tech-cert" -> "TECH_CERT"

\* the routes whose bodies may carry a caller-supplied digest (id_hash)
DigestRoutes == {"pan", "aadhaar", "gst", "passport", "promoter-kyc", "tech-cert"}

\* the raw identifier of a body, where the route accepts one
RawIdentifier(rt, e) ==
  CASE rt = "pan" -> e.pan
    [] rt = "aadhaar" -> e.aadhaar
    [] rt = "gst" -> e.gstin
    [] rt = "passport" -> e.passport_no
    [] rt = "tech-cert" -> e.registration_no
    [] rt = "promoter-kyc" -> <<>>

\* the masked identifier of a body, where the route looks one up
MaskedIdentifier(rt, e) ==
  CASE rt = "passport" -> e.passport_no_masked
    [] rt = "promoter-kyc" -> e.id_no_masked
    [] OTHER -> <<>>

\* the record of a type that a digest resolves to, if any
ByDigest(st, docType, digest) ==
  LET Q(c) == c.doc_type = docType /\ c.id_hash = digest
  IN  IF Truthy(digest) THEN findOne(st, Q) ELSE NullRecord

\* the record of a type that a masked identifier resolves to, if any
ByMasked(st, docType, masked) ==
  LET Q(c) == c.doc_type = docType /\ c.id_masked = masked
  IN  IF Truthy(masked) THEN findOne(st, Q) ELSE NullRecord

\* the record the digest of a raw identifier resolves to, if any
ByRawIdentifier(st, docType, raw) ==
  IF Truthy(raw) THEN ByDigest(st, docType, sha256Hex(normalizeId(raw)))
  ELSE NullRecord

\* C3: when a body carries both a caller-supplied digest and a raw
\* identifier and both resolve to records of the document type, the exact
\* lookup yields the record of the caller-supplied digest with the match
\* type exact_id_hash.
C3_CallerDigestWins ==
  [][\A r \in Slots :
       (ExactMatch(r) /\ route \in DigestRoutes) =>
         LET e == req[r].extracted
             byDigest == ByDigest(store, DocTypeOf(route), e.id_hash)
             byRaw == ByRawIdentifier(store, DocTypeOf(route),
                                      RawIdentifier(route, e))
         IN  (byDigest # NullRecord /\ byRaw # NullRecord) =>
               req'[r].m.main = Match(byDigest, "exact_id_hash", NoNum)]_vars

\* the records the supplied keys resolve to, in the order caller digest,
\* digest of the raw identifier, masked identifier
SuppliedKeyHits(st, rt, e) ==
  LET hits == << ByDigest(st, DocTypeOf(rt), e.id_hash),
                 ByRawIdentifier(st, DocTypeOf(rt), RawIdentifier(rt, e)),
                 ByMasked(st, DocTypeOf(rt), MaskedIdentifier(rt, e)) >>
      Hit(rec) == rec # NullRecord
  IN  SelectSeq(hits, Hit)

\* C4: the exact lookup yields the record of the first supplied key that
\* resolves, in the order caller digest, digest of the raw identifier, masked
\* identifier, and it yields no match only when every supplied key misses.
C4_FirstHitWins ==
  [][\A r \in Slots :
       (ExactMatch(r) /\ route \in DigestRoutes) =>
         LET hits == SuppliedKeyHits(store, route, req[r].extracted)
             after == req'[r].m.main
         IN  IF hits = <<>> THEN ~after.matched
             ELSE IsExact(after) /\ after.record = hits[1]]_vars

\* C5: the fuzzy fallback runs only on a request whose exact lookups have
\* run and left some component unmatched, it changes no component that is
\* matched, and no later step of the handler changes a component the exact
\* lookup matched.
C5_FuzzyOnlyAfterExactMiss ==
  [][\A r \in Slots :
       /\ FuzzyMatch(r) =>
            /\ req[r].pc = "EXACT_MATCH_ATTEMPTED"
            /\ \E k \in DOMAIN req[r].m : ~req[r].m[k].matched
            /\ \A k \in DOMAIN req[r].m :
                 req[r].m[k].matched => req'[r].m[k] = req[r].m[k]
       /\ (InFlight(r) /\ req[r].pc # "RECEIVED" /\ InFlight(r)') =>
            \A k \in DOMAIN req[r].m :
              IsExact(req[r].m[k]) => req'[r].m[k] = req[r].m[k]]_vars

\* a fuzzy fallback has run and left an exact match beside a fuzzy one
C5_Witness ==
  \E r \in Slots :
    /\ req[r].pc = "FUZZY_MATCH_ATTEMPTED"
    /\ \E k \in DOMAIN req[r].m : IsExact(req[r].m[k])
    /\ \E k \in DOMAIN req[r].m : IsFuzzy(req[r].m[k])

\* the component a route's scored fuzzy fallback fills
FuzzyKey(rt) ==
  CASE rt = "electricity" -> "consumer_record"
    [] rt = "loan-license" -> "agreement"
    [] OTHER -> "main"

\* the best candidate of that fallback and its combined score
BestOf(rt, st, e) ==
  CASE rt = "pan" -> bestByNameDob(st, "PAN", e.name, e.dob)
    [] rt = "aadhaar" -> AadhaarBest(st, e)
    [] rt = "gst" ->
         bestByNameDobForEntity(st, "GST", e.legal_name, e.registration_date)
    [] rt = "passport" -> PassportBest(st, e)
    [] rt = "promoter-kyc" -> PromoterBest(st, e)
    [] rt = "tech-cert" -> TechCertBest(st, e)
    [] rt = "trademark" -> bestMark(st, e.mark_name, e.owner_name, e.class)
    [] rt = "electricity" ->
         bestConsumer(st, e.consumer_name, e.address, e.distributor_name)
    [] rt = "loan-license" ->
         bestByName(st, {"LOAN_AGREEMENT"}, e.agreement_title)

\* the acceptance threshold of that fallback
ThresholdOf(rt) ==
  CASE rt = "pan" -> FUZZY_NAME_DOB_THRESHOLD
    [] rt = "aadhaar" -> AADHAAR_FUZZY_THRESHOLD
    [] rt = "gst" -> ENTITY_FUZZY_THRESHOLD
    [] rt = "passport" -> PASSPORT_FUZZY_THRESHOLD
    [] rt = "promoter-kyc" -> PROMOTER_FUZZY_THRESHOLD
    [] rt = "tech-cert" -> TECH_CERT_FUZZY_THRESHOLD
    [] rt = "trademark" -> TRADEMARK_FUZZY_THRESHOLD
    [] rt = "electricity" -> ELECTRICITY_FUZZY_THRESHOLD
    [] rt = "loan-license" -> Pct(One, 58)

\* C6: when the fuzzy fallback runs for an unmatched component, the
\* component ends matched exactly when there is a best candidate whose
\* combined score is at or above the threshold of the document type, and
\* then it holds that candidate and that score; below the threshold it stays
\* unmatched.
C6_ThresholdMonotonic ==
  [][\A r \in Slots :
       (FuzzyMatch(r) /\ ~req[r].m[FuzzyKey(route)].matched) =>
         LET best == BestOf(route, store, req[r].extracted)
             after == req'[r].m[FuzzyKey(route)]
         IN  IF best.matched /\ best.score >= ThresholdOf(route)
             THEN /\ IsFuzzy(after)
                  /\ after.record = best.record
                  /\ after.score = best.score
             ELSE ~after.matched]_vars

\* a fuzzy fallback has accepted a candidate whose score equals the threshold
C6_Witness ==
  \E r \in Slots :
    /\ route = "pan"
    /\ req[r].pc = "FUZZY_MATCH_ATTEMPTED"
    /\ IsFuzzy(req[r].m.main)
    /\ req[r].m.main.score = FUZZY_NAME_DOB_THRESHOLD

\* the identifiers a body can carry, by route
Identifiers(rt, e) ==
  CASE rt = "pan" -> {e.pan, e.id_hash}
    [] rt = "aadhaar" -> {e.aadhaar, e.id_hash, e.aadhaar_last4}
    [] rt = "gst" -> {e.gstin, e.id_hash}
    [] rt = "passport" -> {e.passport_no, e.passport_no_masked, e.id_hash}
    [] rt = "promoter-kyc" -> {e.id_hash, e.id_no_masked}
    [] rt = "tech-cert" -> {e.registration_no, e.id_hash}
    [] rt = "trademark" -> {e.registration_no, e.application_no}
    [] rt = "electricity" ->
         {e.consumer_account_no_masked, e.service_connection_no, e.meter_no,
          e.bill_number}
    [] rt = "loan-license" ->
         {e.applicant_incorporation_no, e.applicant_gst_no, e.agreement_number,
          e.cm_incorporation_no, e.cm_gst_no, e.cm_manufacturer_license_no,
          e.cm_gmp_certificate_no}
           \cup Range(e.product_codes) \cup Range(e.tech_staff_pan_masked)

NoIdentifier(rt, e) == \A id \in Identifiers(rt, e) : ~Truthy(id)

\* the database match score among the persisted checks
DbCheck(checks) ==
  IF "db_match_score" \in DOMAIN checks THEN checks.db_match_score
  ELSE checks.db_score

\* C7: a request with no identifier, no matched component and extraction
\* confidence 0 is scored with db_match_score 0, its final_confidence is at
\* most 0.25 * format_check, and it is REJECTED.
C7_NoEvidenceRejected ==
  \A r \in Slots :
    ( /\ req[r].pc = "PERSISTED"
      /\ NoIdentifier(route, req[r].extracted)
      /\ \A k \in DOMAIN req[r].m : ~req[r].m[k].matched
      /\ req[r].verdict.scorer.ocr_confidence = 0 ) =>
        /\ req[r].verdict.scorer.db_match_score = 0
        /\ DbCheck(req[r].verdict.checks) = 0
        /\ req[r].verdict.final_confidence
             <= Pct(req[r].verdict.scorer.format_check, 25)
        /\ req[r].verdict.status = "REJECTED"

\* C8: when the exact lookup matched the record of a request, the
\* db_match_score given to the scorer is 1.0 and so is the one recorded in
\* the checks of its Verification.
C8_ExactMatchScoresOne ==
  \A r \in Slots :
    ( /\ req[r].pc = "PERSISTED"
      /\ route # "loan-license"
      /\ IsExact(req[r].m[FuzzyKey(route)]) ) =>
        /\ req[r].verdict.scorer.db_match_score = One
        /\ \A i \in DocsOf(NewVerificationId(r)) : DbCheck(ledger[i].checks) = One

\* C9: every persisted Verification has its final_confidence and every
\* score of its checks between 0 and 1.
C9_ScoresInUnitInterval ==
  \A i \in DOMAIN ledger :
    /\ ledger[i].final_confidence >= 0 /\ ledger[i].final_confidence <= One
    /\ \A k \in DOMAIN ledger[i].checks :
         ledger[i].checks[k] >= 0 /\ ledger[i].checks[k] <= One

\* a persisted loan-license Verification whose database score, bonus
\* included, is held at 1
C9_Witness ==
  \E i \in DOMAIN ledger :
    /\ ledger[i].doc_type = "LOAN_LICENSE"
    /\ ledger[i].checks.db_score = One
    /\ ledger[i].checks.agreementDateScore = One
    /\ ledger[i].final_confidence = One

\* C10: the status of every persisted Verification, of whatever document
\* type, is VERIFIED when its final_confidence is at least 0.85,
\* MANUAL_REVIEW when it is at least 0.6 and below 0.85, REJECTED below 0.6.
C10_InclusiveGlobalThresholds ==
  \A i \in DOMAIN ledger :
    LET c == ledger[i].final_confidence
    IN  ledger[i].status = IF c >= Pct(One, 85) THEN "VERIFIED"
                           ELSE IF c >= Pct(One, 60) THEN "MANUAL_REVIEW"
                           ELSE "REJECTED"

\* two persisted Verifications whose final_confidence is exactly 0.85 and 0.6
C10_Witness ==
  \E i, j \in DOMAIN ledger :
    /\ ledger[i].final_confidence = Pct(One, 85)
    /\ ledger[i].status = "VERIFIED"
    /\ ledger[j].final_confidence = Pct(One, 60)
    /\ ledger[j].status = "MANUAL_REVIEW"

\* ------------------------------------------------------------------------
\* The scoring service on its own: computeFinalConfidence and decideStatus
\* evaluated under every configuration of the environment
\* ------------------------------------------------------------------------
\* the non-negative weights WT_DB_MATCH / WT_FORMAT / WT_OCR may be set to;
\* nothing makes them sum to 1
ConfiguredWeights ==
  { DEFAULT_WEIGHTS,
    [db |-> 40, format |-> 40, ocr |-> 20],
    [db |-> 100, format |-> 0, ocr |-> 0],
    [db |-> 50, format |-> 50, ocr |-> 50] }

\* the values THRESH_VERIFIED / THRESH_MANUAL may be set to, in either order
ConfiguredThresholds ==
  [verified : {40, THRESH_MANUAL, THRESH_VERIFIED},
   manual   : {40, THRESH_MANUAL, THRESH_VERIFIED}]

\* the scores given to the scorer
ScoreGrid == {0, Pct(One, 40), Pct(One, 70), One}

CheckNames == {"db_match_score", "format_check", "ocr_confidence"}

\* the configuration, a checks object, and one of its scores changed to `to`
InitScoring ==
  /\ route = "pan"
  /\ store = <<>>
  /\ ledger = <<>>
  /\ req = [r \in Slots |-> IdleSlot]
  /\ \E w \in ConfiguredWeights, t \in ConfiguredThresholds,
        checks \in [CheckNames -> ScoreGrid],
        changed \in CheckNames, to \in ScoreGrid :
       calc = [pc |-> "INPUT", w |-> w, t |-> t, checks |-> checks,
               changed |-> changed, to |-> to]

\* computeFinalConfidence(checks) for the checks object and for the changed one
Score ==
  /\ calc.pc = "INPUT"
  /\ LET other == [calc.checks EXCEPT ![calc.changed] = calc.to]
         final(c) == computeFinalConfidenceWith(calc.w, c["db_match_score"],
                       c["format_check"], c["ocr_confidence"])
     IN  calc' = [pc |-> "SCORED", w |-> calc.w, t |-> calc.t,
                  checks |-> calc.checks, changed |-> calc.changed,
                  to |-> calc.to,
                  final |-> final(calc.checks), final_other |-> final(other)]
  /\ UNCHANGED <<route, store, ledger, req>>

\* decideStatus(final_confidence) for both results
Decide ==
  /\ calc.pc = "SCORED"
  /\ calc' = [pc |-> "DECIDED", t |-> calc.t,
              final |-> calc.final, final_other |-> calc.final_other,
              status |-> decideStatusWith(calc.t, calc.final),
              status_other |-> decideStatusWith(calc.t, calc.final_other)]
  /\ UNCHANGED <<route, store, ledger, req>>

NextScoring == Score \/ Decide

ScoringSpec == InitScoring /\ [][NextScoring]_vars

\* REJECTED < MANUAL_REVIEW < VERIFIED
Rank(status) ==
  CASE status = "REJECTED" -> 0
    [] status = "MANUAL_REVIEW" -> 1
    [] status = "VERIFIED" -> 2

\* C11: under every configured pair of thresholds, of two scores the lower
\* one never gets a better disposition than the higher one, in the ordering
\* REJECTED < MANUAL_REVIEW < VERIFIED.
C11_DispositionMonotonic ==
  calc.pc = "DECIDED" =>
    /\ calc.final < calc.final_other =>
         Rank(calc.status) <= Rank(calc.status_other)
    /\ calc.final_other < calc.final =>
         Rank(calc.status_other) <= Rank(calc.status)

\* two scores on either side of both thresholds, the thresholds configured
\* with the manual one above the verified one
C11_Witness ==
  /\ calc.pc = "DECIDED"
  /\ calc.t.verified < calc.t.manual
  /\ calc.final < calc.final_other
  /\ calc.status = "REJECTED"
  /\ calc.status_other = "VERIFIED"

\* C12: under every configured (non-negative) weighting, raising one of
\* db_match_score, format_check, ocr_confidence while the other two stay
\* fixed never lowers computeFinalConfidence.
C12_FinalConfidenceMonotonic ==
  calc.pc = "SCORED" =>
    /\ calc.to >= calc.checks[calc.changed] => calc.final_other >= calc.final
    /\ calc.to <= calc.checks[calc.changed] => calc.final_other <= calc.final

\* the extraction confidence alone is raised, and the result rises
C12_Witness ==
  /\ calc.pc = "SCORED"
  /\ calc.changed = "ocr_confidence"
  /\ calc.w = DEFAULT_WEIGHTS
  /\ calc.to > calc.checks[calc.changed]
  /\ calc.final_other > calc.final

\* ------------------------------------------------------------------------
\* The same claim submitted in several requests at once: the awaits of the
\* handler calls interleave freely
\* ------------------------------------------------------------------------
\* the store before the requests arrive: empty, or loaded by the seed script
InitConcurrent ==
  /\ route \in Routes
  /\ store \in {<<>>, bulkWrite(<<>>, SeedFileOps[route])}
  /\ ledger = <<>>
  /\ req = [r \in Slots |-> IdleSlot]
  /\ calc = NoCalc

\* every request carries the same validated body
SubmitTogether ==
  /\ \A r \in Slots : req[r].pc = "IDLE"
  /\ \E b \in Submissions(route) :
       /\ validate(route, b)
       /\ req' = [r \in Slots |-> [IdleSlot EXCEPT !.pc = "RECEIVED",
                                      !.body = b,
                                      !.request_id = b.request_id,
                                      !.extracted = b.extracted]]
  /\ UNCHANGED <<route, store, ledger, calc>>

\* the database answers every operation: no request fails for a reason of
\* its own
NextConcurrent ==
  \/ SubmitTogether
  \/ \E r \in Slots : ExactMatch(r)
  \/ \E r \in Slots : FuzzyMatch(r)
  \/ \E r \in Slots : AuxLookup(r)
  \/ \E r \in Slots : Upsert(r)
  \/ \E r \in Slots : Persist(r)
  \/ \E r \in Slots : Respond(r)

ConcurrentSpec == InitConcurrent /\ [][NextConcurrent]_vars

AllReturned == \A r \in Slots : req[r].pc \in {"RESPONDED", "FAILED"}

\* C13: the same claim run in concurrent requests, under any interleaving of
\* their store reads and writes: when the claim can be processed at all (one
\* of the requests is answered 200), no request fails because of another,
\* the verification_ids are pairwise distinct, the ledger has one entry per
\* request, and the entries carry the same disposition.
C13_ConcurrentIdenticalClaims ==
  (AllReturned /\ \E r \in Slots : req[r].http = 200) =>
    /\ \A r \in Slots : req[r].http = 200
    /\ \A r, q \in Slots :
         r # q => req[r].response.verification_id
                    # req[q].response.verification_id
    /\ Len(ledger) = Cardinality(Slots)
    /\ \A i, j \in DOMAIN ledger : ledger[i].status = ledger[j].status

\* ------------------------------------------------------------------------
\* The identifier digest on its own: sha256Hex(normalizeId(raw)) evaluated
\* for two submissions of an identifier
\* ------------------------------------------------------------------------
\* identifiers as callers write them: spacing, case and separators vary
RawIdentifiers ==
  { <<" ","a","b","-","1","2"," ">>,
    <<"A","B","1","2">>,
    <<"a","b","1","2">>,
    <<"A","b"," ","1","2">>,
    <<"a","\t","b","1","2">>,
    <<"A","B","-","1","2">>,
    <<"a","b","/","1","2">>,
    <<"A","B","1","2","X">> }

InitDigest ==
  /\ route = "pan"
  /\ store = <<>>
  /\ ledger = <<>>
  /\ req = [r \in Slots |-> IdleSlot]
  /\ \E a \in RawIdentifiers, b \in RawIdentifiers :
       calc = [pc |-> "RAW", a |-> a, b |-> b]

\* const normalized = normalizeId(rawId), for both submissions
Normalize ==
  /\ calc.pc = "RAW"
  /\ calc' = [pc |-> "NORMALIZED", a |-> calc.a, b |-> calc.b,
              normalized_a |-> normalizeId(calc.a),
              normalized_b |-> normalizeId(calc.b)]
  /\ UNCHANGED <<route, store, ledger, req>>

\* const id_hash = sha256Hex(normalized), for both submissions, and for the
\* first one normalized a second time
Digest ==
  /\ calc.pc = "NORMALIZED"
  /\ calc' = [pc |-> "DIGESTED", a |-> calc.a, b |-> calc.b,
              id_hash_a |-> sha256Hex(calc.normalized_a),
              id_hash_b |-> sha256Hex(calc.normalized_b),
              id_hash_again |-> sha256Hex(normalizeId(calc.normalized_a))]
  /\ UNCHANGED <<route, store, ledger, req>>

NextDigest == Normalize \/ Digest

DigestSpec == InitDigest /\ [][NextDigest]_vars

\* the letters and digits of an identifier, upper-cased: what is left when
\* spacing, case and separators are disregarded
RECURSIVE LettersAndDigits(_)
LettersAndDigits(s) ==
  IF s = <<>> THEN <<>>
  ELSE IF Head(s) \in LowerSet \cup UpperSet \cup Digits
       THEN <<UpperChar(Head(s))>> \o LettersAndDigits(Tail(s))
       ELSE LettersAndDigits(Tail(s))

\* C14: normalizing twice gives the digest of normalizing once, and two
\* submissions of the same identifier that differ in whitespace, case or
\* separators (" ab-12 " and "AB12") get the same digest.
C14_DigestIgnoresFormatting ==
  calc.pc = "DIGESTED" =>
    /\ calc.id_hash_again = calc.id_hash_a
    /\ LettersAndDigits(calc.a) = LettersAndDigits(calc.b)
         => calc.id_hash_a = calc.id_hash_b

C16_UniqueDigestPerType ==
  \A i, j \in 1..Len(store) :
    (store[i].doc_type = store[j].doc_type
       /\ store[i].id_hash = store[j].id_hash) => i = j

\* a seeded record and a record written by a promoter request, of one type
C16_Witness ==
  \E i, j \in 1..Len(store) :
    /\ store[i].source = "seed"
    /\ store[j].source = "ingest_make_authoritative"
    /\ store[i].doc_type = store[j].doc_type
    /\ \E r \in Slots : req[r].pc = "FAILED"

\* C17: the ledger is append-only.  A step either leaves the Verification
\* collection as it is, or is a request's insertion of its own new record:
\* every earlier record is unchanged and keeps its place, and the one new
\* record carries the verification_id of the request that made the step,
\* which no earlier record carries.
C17_LedgerAppendOnly ==
  [][\/ ledger' = ledger
     \/ /\ Len(ledger') = Len(ledger) + 1
        /\ SubSeq(ledger', 1, Len(ledger)) = ledger
        /\ \E r \in Slots :
             /\ req'[r].pc = "PERSISTED"
             /\ req[r].pc # "PERSISTED"
             /\ ledger'[Len(ledger')].verification_id = NewVerificationId(r)
             /\ ledger'[Len(ledger')].request_id = req[r].request_id
        /\ \A i \in 1..Len(ledger) :
             ledger[i].verification_id
               # ledger'[Len(ledger')].verification_id]_vars

\* the second request has just inserted its record after the first one's
C17_Witness ==
  /\ Len(ledger) = 2
  /\ req[2].pc = "PERSISTED"
  /\ req[1].pc = "RESPONDED"
  /\ ledger[1].verification_id = req[1].response.verification_id
  /\ ledger[2].verification_id = NewVerificationId(2)


\* ------------------------------------------------------------------------
\* Schema validation in front of the handlers
\* ------------------------------------------------------------------------
\* the handler of a request is running or has run to its response
HandlerEntered(r) ==
  req[r].pc \in {"RECEIVED", "EXACT_MATCH_ATTEMPTED", "FUZZY_MATCH_ATTEMPTED",
                 "AUX_LOOKED_UP", "UPSERTED", "PERSISTED"}

\* C18: a body that fails its route's schema (a required key missing, a key
\* malformed, an unknown key) is answered 400 validation_error by a step that
\* leaves both collections alone, its request never enters the handler and
\* no Verification carries its id; a handler runs only on a body that passed
\* the schema, and works on that body's `extracted`.
C18_InvalidClaimRejected ==
  /\ [](\A r \in Slots :
          /\ HandlerEntered(r) =>
               /\ SchemaValidate(route, req[r].body, FALSE)
               /\ req[r].extracted = req[r].body.extracted
               /\ req[r].request_id = req[r].body.request_id
          /\ req[r].pc = "INVALID" =>
               /\ req[r].http = 400
               /\ req[r].response = [error |-> "validation_error"]
               /\ \A i \in DOMAIN ledger :
                    ledger[i].verification_id # NewVerificationId(r))
  /\ [][\A r \in Slots :
          /\ ( /\ req[r].pc = "SUBMITTED"
               /\ ~SchemaValidate(route, req[r].body, FALSE)
               /\ req'[r] # req[r] ) =>
               /\ req'[r].pc = "INVALID"
               /\ ledger' = ledger
               /\ store' = store
          /\ req'[r].pc = "INVALID" => req[r].pc \in {"SUBMITTED", "INVALID"}
          /\ req[r].pc = "INVALID" => req'[r] = req[r]]_vars

\* one claim was refused by the schema and another was verified and recorded
C18_Witness ==
  \E r, q \in Slots :
    /\ req[r].pc = "INVALID"
    /\ req[r].http = 400
    /\ req[q].pc = "RESPONDED"
    /\ req[q].http = 200
    /\ Len(ledger) = 1


\* ------------------------------------------------------------------------
\* Exceptions inside a handler
\* ------------------------------------------------------------------------
\* the request has been answered
Answered(r) == req[r].pc \in {"INVALID", "RESPONDED", "FAILED"}

\* C19: an exception raised in a handler (a database operation that throws,
\* the unique index refusing an insert) ends the handler with one response,
\* status 500 and body { error: 'internal_server_error' }; the request is
\* never answered 200 afterwards, and an answered request is never answered
\* again.
C19_ExceptionAnsweredOnce ==
  /\ [](\A r \in Slots :
          req[r].pc = "FAILED" =>
            /\ req[r].http = 500
            /\ req[r].response = [error |-> "internal_server_error"])
  /\ [][\A r \in Slots :
          /\ Answered(r) => req'[r] = req[r]
          /\ (HandlerEntered(r) /\ ~HandlerEntered(r)') =>
               \/ /\ req[r].pc = "PERSISTED"
                  /\ req'[r].pc = "RESPONDED"
                  /\ req'[r].http = 200
               \/ /\ req'[r].pc = "FAILED"
                  /\ req'[r].http = 500
          /\ req'[r].http = 200 => req[r].pc \in {"PERSISTED", "RESPONDED"}]_vars

\* one request failed in its handler and another was answered 200
C19_Witness ==
  \E r, q \in Slots :
    /\ req[r].pc = "FAILED"
    /\ req[r].http = 500
    /\ req[q].pc = "RESPONDED"


\* ------------------------------------------------------------------------
\* Order of the steps of a request
\* ------------------------------------------------------------------------
\* the Verification records that carry a verification_id
RecordsOf(id) == { i \in DOMAIN ledger : ledger[i].verification_id = id }

\* C20: a request is answered 200 only from the state in which its
\* Verification has been inserted; the inserted record's final_confidence is
\* the score of the handler's checks and its status the decision on it; and
\* the verification_id, status and reasons of a 200 response are those of
\* the one persisted record with that id.
C20_PersistBeforeRespond ==
  /\ [](\A r \in Slots :
          (req[r].pc = "RESPONDED" /\ req[r].http = 200) =>
            /\ Cardinality(RecordsOf(req[r].response.verification_id)) = 1
            /\ \A i \in RecordsOf(req[r].response.verification_id) :
                 /\ ledger[i].status = req[r].response.status
                 /\ ledger[i].reasons = req[r].response.reasons
                 /\ ledger[i].status = decideStatus(ledger[i].final_confidence))
  /\ [][\A r \in Slots :
          /\ (req'[r].http = 200 /\ req[r].http # 200) =>
               /\ req[r].pc = "PERSISTED"
               /\ RecordsOf(NewVerificationId(r)) # {}
               /\ ledger' = ledger
          /\ (req'[r].pc = "PERSISTED" /\ req[r].pc # "PERSISTED") =>
               /\ HandlerEntered(r)
               /\ Len(ledger') = Len(ledger) + 1
               /\ ledger'[Len(ledger')].verification_id = NewVerificationId(r)
               /\ ledger'[Len(ledger')].status = req'[r].verdict.status
               /\ ledger'[Len(ledger')].final_confidence =
                    computeFinalConfidence(req'[r].verdict.scorer.db_match_score,
                                           req'[r].verdict.scorer.format_check,
                                           req'[r].verdict.scorer.ocr_confidence)]_vars

\* a request was answered 200 with MANUAL_REVIEW and reasons, after its record
\* was inserted
C20_Witness ==
  \E r \in Slots :
    /\ req[r].pc = "RESPONDED"
    /\ req[r].http = 200
    /\ req[r].response.status = "MANUAL_REVIEW"
    /\ req[r].response.reasons # <<>>
    /\ RecordsOf(req[r].response.verification_id) # {}


\* ------------------------------------------------------------------------
\* Candidate retrieval of the fuzzy fallbacks
\* ------------------------------------------------------------------------
\* the routes whose fuzzy query is narrowed by a date of the claim
DateFilteredRoutes == {"pan", "aadhaar", "gst"}

\* the claim without the date that narrows the query
WithoutDate(rt, e) ==
  CASE rt = "pan" -> [e EXCEPT !.dob = NoDate]
    [] rt = "aadhaar" -> [e EXCEPT !.dob = NoDate]
    [] rt = "gst" -> [e EXCEPT !.registration_date = NoDate]

\* C21: when the fuzzy fallback of a date-filtered lookup finds the filtered
\* candidate set empty, it falls back to the unfiltered records of the same
\* document type under the same cap: if the best of those scores at or above
\* the threshold, the claim ends matched.
C21_FallbackToUnfiltered ==
  [][\A r \in Slots :
       ( /\ FuzzyMatch(r)
         /\ route \in DateFilteredRoutes
         /\ ~req[r].m.main.matched ) =>
         LET e == req[r].extracted
             filtered == BestOf(route, store, e)
             unfiltered == BestOf(route, store, WithoutDate(route, e))
         IN  ( /\ ~filtered.matched
               /\ unfiltered.matched
               /\ unfiltered.score >= ThresholdOf(route) ) =>
               req'[r].m.main.matched]_vars


\* ------------------------------------------------------------------------
\* Selection among the fuzzy candidates
\* ------------------------------------------------------------------------
\* the records of a store, as a set
RecordsIn(st) == { st[i] : i \in DOMAIN st }

\* the candidate set a route's scored fuzzy fallback retrieves for a claim
\* (no cap is reached by the stores of the model)
CandidatesOf(rt, st, e) ==
  LET OfTypes(T) == { c \in RecordsIn(st) : c.doc_type \in T }
  IN  CASE rt = "pan" ->
             { c \in OfTypes({"PAN"}) : e.dob # NoDate => c.dob = e.dob }
        [] rt = "aadhaar" ->
             LET dated == { c \in OfTypes({"AADHAAR"}) :
                              e.dob # NoDate => c.dob = e.dob }
                 byLast4 == { c \in dated :
                                Truthy(c.id_masked)
                                  /\ includes(c.id_masked, e.aadhaar_last4) }
             IN  IF Truthy(e.aadhaar_last4) /\ byLast4 # {} THEN byLast4
                 ELSE dated
        [] rt = "gst" ->
             { c \in OfTypes({"GST"}) :
                 e.registration_date # NoDate => c.dob = e.registration_date }
        [] rt = "passport" -> OfTypes({"PASSPORT", "PROMOTER_KYC"})
        [] rt = "promoter-kyc" -> OfTypes({"PROMOTER_KYC", "PAN", "TECH_CERT"})
        [] rt = "tech-cert" ->
             LET byCouncil == { c \in OfTypes({"TECH_CERT"}) :
                                  Truthy(e.council_name) =>
                                    RegexI(c.raw.council_name,
                                           FirstWords(e.council_name, 4)) }
             IN  IF byCouncil # {} THEN byCouncil ELSE OfTypes({"TECH_CERT"})
        [] rt = "trademark" ->
             { c \in OfTypes({"TRADEMARK"}) :
                 Truthy(e.class) => RegexI(c.raw.class, e.class) }
        [] rt = "electricity" ->
             LET bills == OfTypes({"ELECTRICITY_BILL", "UTILITY"})
                 byDiscom == { c \in bills :
                                 RegexI(c.raw.distributor_name,
                                        FirstWords(e.distributor_name, 3)) }
                 byAddr == { c \in bills :
                               RegexI(c.address, FirstWords(e.address, 4)) }
             IN  IF Truthy(e.distributor_name) /\ byDiscom # {} THEN byDiscom
                 ELSE IF Truthy(e.address) THEN byAddr ELSE bills
        [] rt = "loan-license" -> OfTypes({"LOAN_AGREEMENT"})

\* the combined score a route's fuzzy fallback gives a candidate
ScoreOf(rt, e, c) ==
  CASE rt = "pan" -> NameSimilarity(normalizeName(e.name), c.canonical_name)
    [] rt = "aadhaar" -> fuzzyScoreCandidate(c, e.name)
    [] rt = "gst" ->
         LET canonical == normalizeName(e.legal_name)
         IN  Similarity(levenshtein(canonical, normalizeName(c.canonical_name)),
                        Max3(Len(canonical), Len(c.canonical_name), 1))
    [] rt = "passport" -> PassportScore(e, c)
    [] rt = "promoter-kyc" -> PromoterScore(e, c)
    [] rt = "tech-cert" -> TechCertScore(e, c)
    [] rt = "trademark" -> TrademarkScore(e.mark_name, e.owner_name, c)
    [] rt = "electricity" ->
         ConsumerScore(e.consumer_name, e.address, e.distributor_name, c)
    [] rt = "loan-license" ->
         LET nameCanon == trim(toLowerCase(e.agreement_title))
             cand == toLowerCase(OrElse(c.canonical_name, c.raw.name))
         IN  Similarity(levenshtein(nameCanon, cand),
                        Max3(Len(nameCanon), Len(cand), 1))

\* C22: the record a fuzzy fallback attaches to a component is one of the
\* candidates it retrieved, the score it reports is that candidate's combined
\* score, and no other candidate of the set has a greater score.
C22_BestCandidateSelected ==
  [][\A r \in Slots :
       ( /\ FuzzyMatch(r)
         /\ ~req[r].m[FuzzyKey(route)].matched
         /\ req'[r].m[FuzzyKey(route)].matched ) =>
         LET e == req[r].extracted
             after == req'[r].m[FuzzyKey(route)]
         IN  /\ after.record \in CandidatesOf(route, store, e)
             /\ after.score = ScoreOf(route, e, after.record)
             /\ \A c \in CandidatesOf(route, store, e) :
                  ScoreOf(route, e, c) <= after.score]_vars

\* a fuzzy fallback has attached a candidate although another candidate of
\* the set also reached the threshold, with a smaller score
C22_Witness ==
  \E r \in Slots :
    /\ req[r].pc = "FUZZY_MATCH_ATTEMPTED"
    /\ IsFuzzy(req[r].m[FuzzyKey(route)])
    /\ LET got == req[r].m[FuzzyKey(route)]
           e == req[r].extracted
       IN  \E c \in CandidatesOf(route, store, e) :
             /\ c # got.record
             /\ ScoreOf(route, e, c) >= ThresholdOf(route)
             /\ ScoreOf(route, e, c) < got.score


\* ------------------------------------------------------------------------
\* src/controllers/verifyUtilityController.js : verifyUtilityHandler,
\* stand-alone evaluation of the recent-bill check and of buildReasons
\* ------------------------------------------------------------------------
\* Math.floor((now - new Date(billing_date)) / day), and the three branches
\* that assign checks.recent_bill_score; a missing date gives NaN, which
\* fails both comparisons
UtilityRecentBillScore(billing_date) ==
  LET days == Now - billing_date
  IN  IF billing_date # NoDate /\ days <= 90 THEN One
      ELSE IF billing_date # NoDate /\ days <= 180 THEN One
      ELSE One

\* buildReasons(checks, matchedRecord) of the utility handler
UtilityBuildReasons(checks, matched) ==
  (IF checks.format_check = One THEN << <<"fields_present">> >> ELSE <<>>)
  \o (IF checks.recent_bill_score = One THEN << <<"recent_bill_<=_90d">> >>
      ELSE IF checks.recent_bill_score = Pct(One, 60)
           THEN << <<"bill_within_180d">> >>
           ELSE << <<"bill_old">> >>)
  \o (IF checks.db_match_score = One THEN << <<"exact_db_match">> >>
      ELSE IF checks.db_match_score > 0
           THEN << <<"fuzzy_db_match_score", toFixed2(checks.db_match_score)>> >>
           ELSE <<>>)
  \o (IF checks.ocr_confidence # 0 /\ checks.ocr_confidence < Pct(One, 60)
      THEN << <<"low_ocr_confidence">> >> ELSE <<>>)
  \o (IF ~matched THEN << <<"no_db_match_found">> >> ELSE <<>>)

\* the ages in days of the bills of a run
UtilityBillAges == {0, 45, 90, 91, 150, 180, 181, 400}

InitUtility ==
  /\ route = "pan"
  /\ store = <<>>
  /\ ledger = <<>>
  /\ req = [r \in Slots |-> IdleSlot]
  /\ \E age \in UtilityBillAges, fields \in BOOLEAN,
        db \in {0, Pct(One, 70), One}, ocr \in {0, Pct(One, 50), One} :
       calc = [pc |-> "INPUT", billing_date |-> Now - age,
               checks |-> [format_check |-> IF fields THEN One ELSE 0,
                           recent_bill_score |-> 0,
                           db_match_score |-> db,
                           ocr_confidence |-> ocr]]

\* the recent-bill check of the handler
UtilityRecentBill ==
  /\ calc.pc = "INPUT"
  /\ calc' = [pc |-> "CHECKED", billing_date |-> calc.billing_date,
              checks |-> [calc.checks EXCEPT !.recent_bill_score =
                            UtilityRecentBillScore(calc.billing_date)]]
  /\ UNCHANGED <<route, store, ledger, req>>

\* buildReasons on the checks of the handler
UtilityReasons ==
  /\ calc.pc = "CHECKED"
  /\ calc' = [pc |-> "REASONED", billing_date |-> calc.billing_date,
              checks |-> calc.checks,
              reasons |-> UtilityBuildReasons(calc.checks,
                                              calc.checks.db_match_score > 0)]
  /\ UNCHANGED <<route, store, ledger, req>>

NextUtility == UtilityRecentBill \/ UtilityReasons

UtilitySpec == InitUtility /\ [][NextUtility]_vars

\* x occurs in a list of reasons
HasReason(reasons, x) == \E i \in DOMAIN reasons : reasons[i] = x

\* C23: recent_bill_score is 1 for a bill at most 90 days old, 0.6 for one
\* at most 180 days old and 0 for an older one, and the reasons name the
\* same age band.
C23_RecentBillBands ==
  calc.pc = "REASONED" =>
    LET days == Now - calc.billing_date
        band == IF days <= 90 THEN <<One, <<"recent_bill_<=_90d">> >>
                ELSE IF days <= 180
                     THEN <<Pct(One, 60), <<"bill_within_180d">> >>
                     ELSE <<0, <<"bill_old">> >>
    IN  /\ calc.checks.recent_bill_score = band[1]
        /\ HasReason(calc.reasons, band[2])


\* ------------------------------------------------------------------------
\* Identifiers in responses
\* ------------------------------------------------------------------------
\* the full raw identifiers of the items of a run's seed file
SeededRawIds(rt) ==
  { SeedFileOf(rt)[i].raw_id : i \in DOMAIN SeedFileOf(rt) } \ { <<>> }

\* C24: the id_masked of the matched_record of a 200 response is never the
\* full raw identifier of an item the seeding script loaded.
C24_ResponseHidesRawIdentifier ==
  \A r \in Slots :
    ( /\ req[r].pc = "RESPONDED"
      /\ req[r].http = 200
      /\ req[r].response.matched_record # NullView ) =>
      req[r].response.matched_record.id_masked \notin SeededRawIds(route)


\* ------------------------------------------------------------------------
\* Disposition without a store match
\* ------------------------------------------------------------------------
\* no lookup of the handler found a record that was in the store
NoStoreMatch(m) ==
  \A k \in DOMAIN m : ~m[k].matched \/ m[k].match_type = "upserted"

\* C25: a claim whose exact and fuzzy lookups found no record of the store
\* is recorded as REJECTED, under the default weights and thresholds.
C25_NoMatchRejected ==
  [][\A r \in Slots :
       ( /\ req[r].pc # "PERSISTED"
         /\ req'[r].pc = "PERSISTED"
         /\ NoStoreMatch(req[r].m) ) =>
         req'[r].verdict.status = "REJECTED"]_vars


\* ------------------------------------------------------------------------
\* Document type of the matched record
\* ------------------------------------------------------------------------
\* C26: the record a handler holds as the claim's matched record, whether an
\* exact or a fuzzy lookup found it, has the document type of the claim.
C26_MatchedRecordOfOwnType ==
  \A r \in Slots :
    ( /\ HandlerEntered(r)
      /\ req[r].pc # "RECEIVED"
      /\ route # "loan-license"
      /\ req[r].m[FuzzyKey(route)].matched ) =>
      req[r].m[FuzzyKey(route)].record.doc_type = SchemaDocType(route)


\* ------------------------------------------------------------------------
\* Reasons about the store match
\* ------------------------------------------------------------------------
\* the routes whose buildReasons reports the match as 'exact_db_match',
\* 'fuzzy_db_match_score_*' or 'no_db_match_found'
MatchReasonRoutes == Routes \ {"electricity", "loan-license"}

\* some reason of the list is a 'fuzzy_db_match_score_*'
HasFuzzyReason(reasons) ==
  \E i \in DOMAIN reasons : Head(reasons[i]) = "fuzzy_db_match_score"

\* C27: the reasons recorded for a claim contain 'exact_db_match' exactly
\* when an exact lookup matched the claim; a claim matched by the fuzzy
\* fallback is not reported as an exact match, and an exact match carries no
\* 'fuzzy_db_match_score_*' reason.
C27_ExactReasonIffExactMatch ==
  [][\A r \in Slots :
       ( /\ route \in MatchReasonRoutes
         /\ req[r].pc # "PERSISTED"
         /\ req'[r].pc = "PERSISTED" ) =>
         LET main == req[r].m.main
             reasons == ledger'[Len(ledger')].reasons
         IN  /\ HasReason(reasons, <<"exact_db_match">>) <=> IsExact(main)
             /\ IsFuzzy(main) => ~HasReason(reasons, <<"exact_db_match">>)
             /\ IsExact(main) => ~HasFuzzyReason(reasons)]_vars


\* C28: in the reasons of a persisted Verification 'no_db_match_found' is
\* present exactly when matched_record_id is null, and then neither
\* 'exact_db_match' nor a 'fuzzy_db_match_score_*' reason is present.
C28_NoMatchReasonConsistent ==
  route \in MatchReasonRoutes =>
    \A i \in DOMAIN ledger :
      LET reasons == ledger[i].reasons
          none == HasReason(reasons, <<"no_db_match_found">>)
      IN  /\ none <=> ledger[i].matched_record_id = NullRecord._id
          /\ none => /\ ~HasReason(reasons, <<"exact_db_match">>)
                     /\ ~HasFuzzyReason(reasons)


\* ------------------------------------------------------------------------
\* src/controllers/verifyClinicController.nohash.js : the premises component
\* of verifyClinicHandlerNoHash and mapComponentsForResponse
\* ------------------------------------------------------------------------
\* exactLookupByField of the clinic handler; no seeded item carries a
\* raw.form_no, so that alternative of the $or selects nothing
ClinicExactLookupByField(st, docType, value) ==
  LET Q(c) == /\ c.doc_type = docType
              /\ \/ c.raw.certificate_no = value
                 \/ c.raw.registration_no = value
                 \/ c.id_masked = value
  IN  IF ~Truthy(value) THEN NullRecord ELSE findOne(st, Q)

\* { required: true, matched: false, score: 0, record: null }
ClinicEmptyComponent ==
  [required |-> TRUE, matched |-> FALSE, score |-> 0, record |-> NullRecord]

\* premises_address.toString().split(/\s+/).slice(0,4).join(" ")
ClinicAddrFrag(premises_address) ==
  FirstWords(CollapseWhitespace(premises_address), 4)

\* the candidates of the address search, at most 200
ClinicPremisesCandidates(st, premises_address) ==
  LET Q(c) == /\ c.doc_type \in {"LEASE", "UTILITY", "INCORP"}
              /\ Truthy(c.address)
              /\ RegexI(c.address, ClinicAddrFrag(premises_address))
  IN  limit(find(st, Q), 200)

\* 1 - (dist / maxLen) of the claimed address and a candidate's
ClinicAddressSim(premises_address, c) ==
  LET candAddr == toLowerCase(c.address)
  IN  Similarity(levenshtein(toLowerCase(premises_address), candAddr),
                 Max3(Len(premises_address), Len(candAddr), 1))

\* the for loop over the candidates: bestSim and components.premises.record
\* after the candidates from the k-th on, starting from acc
RECURSIVE ClinicPremisesLoop(_, _, _, _)
ClinicPremisesLoop(premises_address, candidates, k, acc) ==
  IF k > Len(candidates) THEN acc
  ELSE LET c   == candidates[k]
           sim == ClinicAddressSim(premises_address, c)
       IN  ClinicPremisesLoop(premises_address, candidates, k + 1,
             IF sim > acc.bestSim THEN [bestSim |-> sim, record |-> c]
                                  ELSE acc)

\* step 3, first half: the occupancy certificate
ClinicPremisesOccupancy(st, e, premises) ==
  LET rec == ClinicExactLookupByField(st, "OCCUPANCY",
                                      e.occupancy_certificate_no)
  IN  IF Truthy(e.occupancy_certificate_no) /\ rec # NullRecord
      THEN [premises EXCEPT !.matched = TRUE, !.score = One, !.record = rec]
      ELSE premises

\* step 3, second half: the address search, then
\* components.premises.score = premisesScore
ClinicPremisesAddress(st, e, premises) ==
  LET candidates == ClinicPremisesCandidates(st, e.premises_address)
      best == ClinicPremisesLoop(e.premises_address, candidates, 1,
                [bestSim |-> 0, record |-> premises.record])
  IN  IF ~premises.matched /\ Truthy(e.premises_address)
      THEN IF candidates # <<>>
           THEN IF best.bestSim >= Pct(One, 62)
                THEN [premises EXCEPT !.matched = TRUE,
                                      !.score = best.bestSim,
                                      !.record = best.record]
                ELSE [premises EXCEPT !.score = 0, !.record = best.record]
           ELSE [premises EXCEPT !.score = 0]
      ELSE [premises EXCEPT !.score = IF premises.matched THEN One ELSE 0]

\* one entry of mapComponentsForResponse: a component with a record answers
\* with that record, whatever its matched flag
ClinicMapComponent(c) ==
  [required |-> c.required,
   matched  |-> c.matched,
   score    |-> toFixed3(c.score),
   records  |-> IF c.record # NullRecord
                THEN << [record_id      |-> c.record._id,
                         id_masked      |-> OrElse(c.record.id_masked,
                                             OrElse(c.record.raw.certificate_no,
                                                    c.record.raw.registration_no)),
                         canonical_name |-> OrElse(c.record.canonical_name,
                                                   c.record.raw.name)] >>
                ELSE <<>>]

\* the seed items of the premises runs: a lease and a utility connection with
\* their addresses, and an occupancy certificate
ClinicLease ==
  [EmptyItem EXCEPT !.doc_type = "LEASE", !.raw_id = <<"L", "1">>,
     !.name = <<"o", "m">>,
     !.address = <<"1", " ", "m", " ", "s", "t", " ", "p", "u", "n", "e",
                   " ", "4", "1", "1">>]

ClinicUtility ==
  [EmptyItem EXCEPT !.doc_type = "UTILITY", !.raw_id = <<"U", "1">>,
     !.name = <<"o", "m">>,
     !.address = <<"1", " ", "M", " ", "S", "t">>]

ClinicOccupancy ==
  [EmptyItem EXCEPT !.doc_type = "OCCUPANCY", !.raw_id = <<"O", "1">>,
     !.raw = [EmptyRaw EXCEPT !.certificate_no = <<"O", "1">>]]

ClinicSeeds ==
  { <<ClinicLease, ClinicOccupancy>>,
    <<ClinicLease, ClinicUtility, ClinicOccupancy>>,
    <<ClinicUtility, ClinicLease>>,
    <<ClinicOccupancy>> }

\* the claimed premises addresses: none, the street alone, the street in
\* another case, nearly the whole address of the lease, an unknown street
ClinicAddresses ==
  { <<>>,
    <<"1", " ", "m", " ", "s", "t">>,
    <<"1", " ", "M", " ", "S", "T">>,
    <<"1", " ", "m", " ", "s", "t", " ", "p", "u", "n", "e", " ", "4", "1">>,
    <<"1", " ", "m", " ", "s", "t", " ", "p", "u", "n", "e">>,
    <<"9", " ", "z", " ", "r", "d">> }

ClinicCertificates == { <<>>, <<"O", "1">>, <<"O", "9">> }

InitClinic ==
  /\ route = "pan"
  /\ ledger = <<>>
  /\ req = [r \in Slots |-> IdleSlot]
  /\ \E items \in ClinicSeeds : store = bulkWrite(<<>>, SeedOps(items))
  /\ \E a \in ClinicAddresses, o \in ClinicCertificates :
       calc = [pc |-> "INPUT",
               extracted |-> [premises_address |-> a,
                              occupancy_certificate_no |-> o],
               premises |-> ClinicEmptyComponent]

ClinicOccupancyStep ==
  /\ calc.pc = "INPUT"
  /\ calc' = [calc EXCEPT !.pc = "OCCUPANCY_CHECKED",
                !.premises = ClinicPremisesOccupancy(store, calc.extracted, @)]
  /\ UNCHANGED <<route, store, ledger, req>>

ClinicAddressStep ==
  /\ calc.pc = "OCCUPANCY_CHECKED"
  /\ calc' = [calc EXCEPT !.pc = "PREMISES_DONE",
                !.premises = ClinicPremisesAddress(store, calc.extracted, @)]
  /\ UNCHANGED <<route, store, ledger, req>>

\* Verification.create({ ..., components, ... })
ClinicPersist ==
  /\ calc.pc = "PREMISES_DONE"
  /\ ledger' = Append(ledger, [doc_type |-> "CLINIC",
                               components |-> [premises |-> calc.premises]])
  /\ calc' = [calc EXCEPT !.pc = "PERSISTED"]
  /\ UNCHANGED <<route, store, req>>

\* res.status(200).json({ ..., components: mapComponentsForResponse(components) })
ClinicRespond ==
  /\ calc.pc = "PERSISTED"
  /\ calc' = [pc |-> "RESPONDED", extracted |-> calc.extracted,
              premises |-> calc.premises,
              response |-> [premises |-> ClinicMapComponent(calc.premises)]]
  /\ UNCHANGED <<route, store, ledger, req>>

NextClinic ==
  ClinicOccupancyStep \/ ClinicAddressStep \/ ClinicPersist \/ ClinicRespond

ClinicSpec == InitClinic /\ [][NextClinic]_vars

\* C29: a component whose matched flag is false carries no record: neither
\* the persisted premises component of a clinic verification nor the
\* component returned in the response holds a candidate that was rejected
\* for scoring below the threshold
C29_UnmatchedComponentHasNoRecord ==
  /\ \A i \in DOMAIN ledger :
       ~ledger[i].components.premises.matched
         => ledger[i].components.premises.record = NullRecord
  /\ calc.pc = "RESPONDED" /\ ~calc.response.premises.matched
       => calc.response.premises.records = <<>>


\* the routes whose claims carry a raw identifier that the handler looks up
IdentifierRoutes ==
  {"pan", "aadhaar", "gst", "passport", "tech-cert", "trademark"}

\* the raw identifier of a claim on those routes
ClaimedIdentifier(rt, e) ==
  IF rt = "trademark" THEN e.registration_no ELSE RawIdentifier(rt, e)

\* the match types the handlers give to an exact lookup's result
ExactMatchTypes ==
  {"exact_id_hash", "exact_passport_hash", "exact_reg_no", "exact_id_masked"}

\* the seed items of a route's own document type that carry a raw identifier
\* equal to s up to whitespace and letter case
SeedItemsLike(rt, s) ==
  { k \in DOMAIN SeedFileOf(rt) :
      /\ SeedFileOf(rt)[k].doc_type = SchemaDocType(rt)
      /\ Truthy(SeedFileOf(rt)[k].raw_id)
      /\ normalizeId(SeedFileOf(rt)[k].raw_id) = normalizeId(s) }

\* the record the seeding script keeps for an item: the one its filter selects
SeededRecord(st, item) ==
  LET Hit(rec) == SeedFilter(SeedOp(item), rec)
  IN  findOne(st, Hit)

\* a run of the seeding script has completed
SeedHasRun == \E i \in DOMAIN store : store[i].source = "seed"

\* C30: seeding and exact lookup derive the same key.  Once the seeding
\* script has loaded an item with raw identifier R and document type T, the
\* exact-lookup step of a claim of type T whose raw identifier equals R up to
\* whitespace and letter case matches that item's record, with an exact match
\* type wherever the handler names one; and a run of the seeding script on a
\* seeded collection adds no record.
C30_SeedAndLookupAgree ==
  /\ [][\A r \in Slots :
          ( /\ route \in IdentifierRoutes
            /\ req[r].pc = "RECEIVED"
            /\ req'[r].pc = "EXACT_MATCH_ATTEMPTED" ) =>
          \A k \in SeedItemsLike(route,
                                 ClaimedIdentifier(route, req[r].extracted)) :
            LET rec == SeededRecord(store, SeedFileOf(route)[k])
            IN  rec # NullRecord =>
                  /\ req'[r].m.main.matched
                  /\ req'[r].m.main.record = rec
                  /\ req'[r].m.main.match_type \in ExactMatchTypes \cup {""}
      ]_vars
  /\ [][(SeedHasRun /\ req' = req) => Len(store') = Len(store)]_vars

====
